---- MODULE Spec2Model ----
(***************************************************************************)
(* ReactionRoleManager (src/src/reaction-role/manager.js) as a state       *)
(* machine.  Every asynchronous handler is a frame with a program counter; *)
(* one step of a frame runs the code between two awaits of an external     *)
(* call (reaction fetch/remove, role add/remove, hook, requirement check). *)
(* The chat platform (reactions on messages, roles of members, caches) is  *)
(* the record env; the manager's own fields keep their source names.       *)
(***************************************************************************)
EXTENDS Integers, Sequences, FiniteSets, Bags, TLC

\* ------------------------------------------------------------------ bounds
\* Number of gateway reaction events (messageReactionAdd/Remove) delivered.
MaxEvents == 3

\* ---------------------------------------------------------------- universe
Members == {"A", "B", "C"}
Roles == {"R1", "R2"}
BindingIds == {"M1-e1", "M1-e2", "M2-e1"}
BotUser == "bot"
\* The users the manager may keep something for: the members and the bot, which
\* is a member of the guild too.
Users == Members \cup {BotUser}
None == "none"

\* `${message.id}-${emoji}`: the parts of a binding id
MessageOf(id) == IF id = "M2-e1" THEN "M2" ELSE "M1"
EmojiOf(id) == IF id = "M1-e2" THEN "e2" ELSE "e1"
ChannelOf(id) == "C1"
GuildOf(id) == "G1"

\* `${message.id}-${emoji}` for an emoji identifier, possibly null
MakeId(message, emoji) ==
    IF \E id \in BindingIds : MessageOf(id) = message /\ EmojiOf(id) = emoji
    THEN CHOOSE id \in BindingIds : MessageOf(id) = message /\ EmojiOf(id) = emoji
    ELSE None

\* ActionType
ActionGive == "GIVE"
ActionTake == "TAKE"

VARIABLES
    reactionRoles,   \* this.reactionRoles: id -> ReactionRole object
    timeouts,        \* this.timeouts: member -> is a toggle timer of the member pending
    timers,          \* the runtime's timers of the debounce delay, in firing order
    locker,          \* AsyncLock: member -> settlement frames, head is running
    warned,          \* this.__withoutPermissionsWarned
    isReady,         \* this.isReady
    frames,          \* in-flight __handleReactionRoleAction calls, by event number
    boot,            \* the __resfreshOnBoot call
    env,             \* the platform: caches, reactions, member roles, hooks
    pending,         \* gateway messageReactionRemove events not yet delivered
    nEvents,         \* gateway reaction events delivered so far
    store,           \* the persisted JSON file
    emitted,         \* bag of domain events emitted by the manager
    calls,           \* bag of mutation calls issued to the platform
    hist,            \* observation of the run, read by the properties only
    scn              \* the scenario, fixed at the start: event budget, what is observed

vars == <<reactionRoles, timeouts, timers, locker, warned, isReady, frames, boot,
          env, pending, nEvents, store, emitted, calls, hist, scn>>

\* The whole state as one record, so that the code's sequential statements are
\* function composition.
St ==
    [rr |-> reactionRoles, timeouts |-> timeouts, timers |-> timers, locker |-> locker,
     warned |-> warned,
     isReady |-> isReady, frames |-> frames, boot |-> boot,
     env |-> env, pending |-> pending, nEvents |-> nEvents, store |-> store,
     emitted |-> emitted, calls |-> calls, hist |-> hist, scn |-> scn]

Commit(s) ==
    /\ reactionRoles' = s.rr
    /\ timeouts' = s.timeouts
    /\ locker' = s.locker
    /\ warned' = s.warned
    /\ isReady' = s.isReady
    /\ frames' = s.frames
    /\ timers' = s.timers
    /\ boot' = s.boot
    /\ env' = s.env
    /\ pending' = s.pending
    /\ nEvents' = s.nEvents
    /\ store' = s.store
    /\ emitted' = s.emitted
    /\ calls' = s.calls
    /\ hist' = s.hist
    /\ scn' = s.scn

\* ----------------------------------------------------------------- helpers
IndexOf(seq, x) ==
    IF \E k \in 1..Len(seq) : seq[k] = x
    THEN (CHOOSE k \in 1..Len(seq) : seq[k] = x /\ \A j \in 1..(k - 1) : seq[j] # x) - 1
    ELSE -1

\* Array.prototype.splice(index, 1), index counted from 0
Splice(seq, index) ==
    [k \in 1..(Len(seq) - 1) |-> IF k <= index THEN seq[k] ELSE seq[k + 1]]

Range(seq) == {seq[k] : k \in 1..Len(seq)}

Add1(bag, e) == bag (+) SetToBag({e})

Count(bag, e) == CopiesIn(e, bag)

\* ------------------------------------------------------- ReactionRole object
NewReactionRole(id, roles, type, max, boost, dev, winners) ==
    [id |-> id, message |-> MessageOf(id), channel |-> ChannelOf(id), guild |-> GuildOf(id),
     emoji |-> EmojiOf(id), roles |-> roles, type |-> type, max |-> max,
     requirements |-> [boost |-> boost, verifiedDeveloper |-> dev],
     disabled |-> FALSE, winners |-> winners]

isToggle(rr) == "TOGGLE" \in rr.type
isReversed(rr) == "REVERSED" \in rr.type
isJustWin(rr) == "JUST_WIN" \in rr.type
\* A manager that knows no binding that only takes roles.
isJustLoseNever(rr) == FALSE

isJustLose(rr) == "JUST_LOSE" \in rr.type

checkBoostRequirement(s, rr, m) ==
    rr.requirements.boost => m \in s.env.boosting

checkDeveloperRequirement(s, rr, m) ==
    rr.requirements.verifiedDeveloper => m \in s.env.developers

toJSON(rr) == rr

\* ------------------------------------------------------------ platform calls
Emit(s, ev) == IF s.scn.observe THEN [s EXCEPT !.emitted = Add1(@, ev)] ELSE s

Call(s, c) == IF s.scn.observe THEN [s EXCEPT !.calls = Add1(@, c)] ELSE s

\* reaction.users.remove(user): the platform drops the user's reaction and, when
\* there was one, sends the messageReactionRemove gateway event.
UsersRemove(s, id, m) ==
    LET s1 == Call(s, <<"removeReaction", id, m>>)
    IN  IF m \in s1.env.reactions[id]
        THEN [s1 EXCEPT !.env.reactions[id] = @ \ {m},
                        !.pending = @ \cup {<<id, m>>}]
        ELSE s1

RolesAdd(s, m, role) ==
    [Call(s, <<"addRole", m, role>>) EXCEPT !.env.memberRoles[m] = @ \cup {role}]

RolesRemove(s, m, role) ==
    [Call(s, <<"removeRole", m, role>>) EXCEPT !.env.memberRoles[m] = @ \ {role}]

RolesCacheHas(s, m, role) == role \in s.env.memberRoles[m]

Editable(s, role) == role \in s.env.editable

\* A pre-grant hook that lets every role through.
preRoleAddHookTrue(s, m, role, rr) == TRUE

preRoleAddHook(s, m, role, rr) == role \in s.env.hookAdd

preRoleRemoveHook(s, m, role, rr) == role \in s.env.hookRemove

\* ------------------------------------------------------------------- store
\* Lines 648-657: the JSON file is rewritten from the whole collection.
StoreAll(s) ==
    [s EXCEPT !.store = [id \in DOMAIN s.rr |-> toJSON(s.rr[id])]]

\* Lines 631-642: with mongoose every role passed is upserted under its id.
MongoUpsert(s, ids) ==
    LET db == s.env.db
        roles == ids \cap DOMAIN s.rr
    IN  [s EXCEPT !.env.db = [id \in DOMAIN db \cup roles |->
                                 IF id \in roles THEN toJSON(s.rr[id]) ELSE db[id]]]

\* store(...roles), lines 628-663, with storage enabled.
Store(s, ids) ==
    LET s1 == IF s.scn.mongoose THEN MongoUpsert(s, ids) ELSE s
    IN  IF s.scn.json THEN StoreAll(s1) ELSE s1

\* --------------------------------------------------- __checkRolesPermissions
ResolvedRoles(s, rr) ==
    SelectSeq(rr.roles, LAMBDA r : r \in s.env.roles)

RolesWithPermission(s, rr) ==
    SelectSeq(ResolvedRoles(s, rr), LAMBDA r : Editable(s, r))

RolesWithoutPermission(s, rr, m) ==
    SelectSeq(ResolvedRoles(s, rr),
              LAMBDA r : ~Editable(s, r) /\ <<r, m>> \notin s.warned)

\* The guard emitting without recording the pairs in __withoutPermissionsWarned.
checkRolesPermissionsForgetful(s, action, rr, m) ==
    LET without == RolesWithoutPermission(s, rr, m)
    IN  IF Len(without) > 0
        THEN Emit(s, <<"missingPermissions", action, m, without, rr.id>>)
        ELSE s

checkRolesPermissions(s, action, rr, m) ==
    LET without == RolesWithoutPermission(s, rr, m)
    IN  IF Len(without) > 0
        THEN Emit([s EXCEPT !.warned = @ \cup {<<r, m>> : r \in Range(without)}],
                  <<"missingPermissions", action, m, without, rr.id>>)
        ELSE s

\* ------------------------------------------------------- __checkRequirements
\* The synchronous head: the boost check (lines 473-485).
missingBoost(s, rr, m) ==
    UsersRemove(Emit(s, <<"missingRequirements", "BOOST", m, rr.id>>), rr.id, m)

\* The continuation of await checkDeveloperRequirement (lines 486-500).
missingDeveloper(s, rr, m) ==
    UsersRemove(Emit(s, <<"missingRequirements", "VERIFIED_DEVELOPER", m, rr.id>>), rr.id, m)

\* ------------------------------------------------------ frames of async calls
\* What a property compares before and after a call: observation only.
NoSnapshot ==
    [roles |-> {}, winners |-> <<>>, reacted |-> FALSE, calls |-> EmptyBag,
     emitted |-> EmptyBag, timeouts |-> FALSE]

Snapshot(s, m, id) ==
    IF s.scn.observe
    THEN [roles |-> s.env.memberRoles[m], winners |-> s.rr[id].winners,
          reacted |-> m \in s.env.reactions[id], calls |-> s.calls, emitted |-> s.emitted,
          timeouts |-> s.timeouts[m]]
    ELSE NoSnapshot

\* Lines 908-910: membersAffected, rolesAffected and reactionsTaken of
\* __onRemoveAllReaction as they start.
NoneAffected == [roles |-> <<>>, members |-> <<>>, taken |-> 0]

NoFrame ==
    [kind |-> "none", pc |-> "done", action |-> None, member |-> None, rr |-> None,
     i |-> 0, perm |-> <<>>, pre |-> NoSnapshot, arr |-> <<>>, j |-> 0, k |-> 0,
     affected |-> NoneAffected]

ActionFrame(pc, action, m, id, pre) ==
    [kind |-> "action", pc |-> pc, action |-> action, member |-> m, rr |-> id,
     i |-> 0, perm |-> <<>>, pre |-> pre, arr |-> <<>>, j |-> 0, k |-> 0,
     affected |-> NoneAffected]

NoCall ==
    [kind |-> "none", action |-> None, member |-> None, rr |-> None,
     pre |-> NoSnapshot, post |-> NoSnapshot]

\* The frame of the call __resfreshOnBoot awaits; events use their own number.
BootCall == 0

\* The call of frame f returns.
Finish(s, f) ==
    LET fr == s.frames[f]
    IN  IF s.scn.observe
        THEN [s EXCEPT !.frames[f] = NoFrame,
                       !.hist.done = IF f = BootCall THEN @ ELSE @ \cup {f},
                       !.hist.last =
                           IF fr.kind = "action"
                           THEN [kind |-> "action", action |-> fr.action, member |-> fr.member,
                                 rr |-> fr.rr, pre |-> fr.pre,
                                 post |-> Snapshot(s, fr.member, fr.rr)]
                           ELSE NoCall]
        ELSE [s EXCEPT !.frames[f] = NoFrame]

Goto(s, f, pc) == [s EXCEPT !.frames[f].pc = pc]

\* ----------------------------------------------------- __timeoutToggledRoles
\* A schedule call that never finds the member busy.
isBusyNever(s, m) == FALSE

isBusy(s, m) == Len(s.locker[m]) > 0

TimerEntry(kind, m, message, skipped, tries) ==
    [kind |-> kind, member |-> m, message |-> message, skipped |-> skipped, tries |-> tries]

\* A schedule call that leaves the timer set before in place.
ClearTimeoutNever(s, m) == s

\* clearTimeout(this.timeouts.get(member.id))
ClearTimeout(s, m) ==
    [s EXCEPT !.timers = SelectSeq(@, LAMBDA t : ~(t.kind = "settle" /\ t.member = m)),
              !.timeouts[m] = FALSE]

SetTimeout(s, m, message, skipped) ==
    [s EXCEPT !.timers = Append(@, TimerEntry("settle", m, message, skipped, 0)),
              !.timeouts[m] = TRUE,
              !.hist.armed[m] = IF s.scn.observe THEN @ + 1 ELSE @,
              !.hist.sched[m] = IF s.scn.observe THEN skipped ELSE @]

\* A schedule request that waits for a busy member without counting its tries.
timeoutToggledRolesPatient(s, m, message, skipped, tries) ==
    IF isBusy(s, m)
    THEN [s EXCEPT !.timers = Append(@, TimerEntry("retry", m, message, skipped, tries + 1))]
    ELSE SetTimeout(ClearTimeout(s, m), m, message, skipped)

\* The synchronous part of __timeoutToggledRoles (lines 747-760, 853-854).
timeoutToggledRoles(s, m, message, skipped, tries) ==
    IF tries + 1 > 3
    THEN s
    ELSE IF isBusy(s, m)
         THEN [s EXCEPT !.timers = Append(@, TimerEntry("retry", m, message, skipped, tries + 1))]
         ELSE SetTimeout(ClearTimeout(s, m), m, message, skipped)

\* ------------------------------------------------- __handleReactionRoleAction
Flip(action) == IF action = ActionGive THEN ActionTake ELSE ActionGive

\* The handler without the test of line 961.
handleStartUnchecked(s, f, action, m, id) ==
    LET rr == s.rr[id]
    IN  [s EXCEPT !.frames[f] =
            ActionFrame("usersFetch", IF isReversed(rr) THEN Flip(action) ELSE action,
                        m, id, Snapshot(s, m, id))]

\* Lines 961-966: up to await msgReaction.users.fetch().
handleStart(s, f, action, m, id) ==
    LET rr == s.rr[id]
    IN  IF rr.disabled
        THEN Finish(s, f)
        ELSE [s EXCEPT !.frames[f] =
                  ActionFrame("usersFetch", IF isReversed(rr) THEN Flip(action) ELSE action,
                              m, id, Snapshot(s, m, id))]

\* The check of line 981 with the comparison off by one.
CapacityReachedOffByOne(rr) == Len(rr.winners) > rr.max /\ rr.max > 0

CapacityReached(rr) == Len(rr.winners) >= rr.max /\ rr.max > 0

\* The push without the indexOf test of line 1006.
pushWinnerUnchecked(s, id, m) ==
    Store([s EXCEPT !.rr[id].winners = Append(@, m)], {id})

\* Lines 1006-1009.
pushWinner(s, id, m) ==
    IF IndexOf(s.rr[id].winners, m) <= -1
    THEN Store([s EXCEPT !.rr[id].winners = Append(@, m)], {id})
    ELSE s

\* A REVOKE that leaves the winners list as it is.
spliceWinnerNever(s, id, m) == s

\* Lines 1028-1032.
spliceWinner(s, id, m) ==
    LET index == IndexOf(s.rr[id].winners, m)
    IN  IF index >= 0
        THEN Store([s EXCEPT !.rr[id].winners = Splice(@, index)], {id})
        ELSE s

\* Lines 996-998 and 1016-1018: the loop head, up to the await of the hook of role
\* i, or the code after the loop when no role is left (lines 1028-1032).
loopHead(s, f, i) ==
    LET fr == s.frames[f]
    IN  IF i <= Len(fr.perm)
        THEN [s EXCEPT !.frames[f].i = i,
                       !.frames[f].pc = IF fr.action = ActionGive THEN "preRoleAddHook"
                                        ELSE "preRoleRemoveHook"]
        ELSE IF fr.action = ActionGive
             THEN Finish(s, f)
             ELSE Finish(spliceWinner(s, fr.rr, fr.member), f)

\* Lines 967-990: from the fetched reaction users to the next await.
handleAfterFetch(s, f) ==
    LET fr == s.frames[f]
        m == fr.member
        rr == s.rr[fr.rr]
    IN  IF isJustLose(rr) /\ fr.action = ActionGive
        THEN Finish(UsersRemove(s, rr.id, m), f)
        ELSE IF isJustWin(rr) /\ fr.action = ActionTake
        THEN Finish(s, f)
        ELSE LET s1 == checkRolesPermissions(s, fr.action, rr, m)
                 s2 == [s1 EXCEPT !.frames[f].perm = RolesWithPermission(s, rr)]
             IN  IF fr.action = ActionGive
                 THEN IF CapacityReached(rr)
                      THEN Finish(UsersRemove(s2, rr.id, m), f)
                      ELSE IF ~checkBoostRequirement(s2, rr, m)
                           THEN Finish(missingBoost(s2, rr, m), f)
                           ELSE Goto(s2, f, "checkDeveloperRequirement")
                 ELSE loopHead(s2, f, 1)

\* Lines 486-502 and 990-996: after await checkDeveloperRequirement.
handleAfterRequirements(s, f) ==
    LET fr == s.frames[f]
        m == fr.member
        rr == s.rr[fr.rr]
    IN  IF ~checkDeveloperRequirement(s, rr, m)
        THEN Finish(missingDeveloper(s, rr, m), f)
        ELSE IF isToggle(rr)
             THEN Finish(timeoutToggledRoles(s, m, rr.message, rr.id, 0), f)
             ELSE loopHead(s, f, 1)

\* Lines 998-999: after await preRoleAddHook.
handleAfterAddHook(s, f) ==
    LET fr == s.frames[f]
        role == fr.perm[fr.i]
    IN  IF preRoleAddHook(s, fr.member, role, fr.rr) /\ ~RolesCacheHas(s, fr.member, role)
        THEN Goto(RolesAdd(s, fr.member, role), f, "rolesAdd")
        ELSE loopHead(s, f, fr.i + 1)

\* Lines 1000-1011: after await member.roles.add.
handleAfterAdd(s, f) ==
    LET fr == s.frames[f]
        s1 == Emit(s, <<"reactionRoleAdd", fr.member, fr.perm[fr.i]>>)
    IN  loopHead(pushWinner(s1, fr.rr, fr.member), f, fr.i + 1)

\* The REVOKE loop without the member.roles.cache.has test of line 1018.
handleAfterRemoveHookUnchecked(s, f) ==
    LET fr == s.frames[f]
        role == fr.perm[fr.i]
    IN  IF preRoleRemoveHook(s, fr.member, role, fr.rr)
        THEN Goto(RolesRemove(s, fr.member, role), f, "rolesRemove")
        ELSE loopHead(s, f, fr.i + 1)

\* Lines 1018-1019: after await preRoleRemoveHook.
handleAfterRemoveHook(s, f) ==
    LET fr == s.frames[f]
        role == fr.perm[fr.i]
    IN  IF preRoleRemoveHook(s, fr.member, role, fr.rr) /\ RolesCacheHas(s, fr.member, role)
        THEN Goto(RolesRemove(s, fr.member, role), f, "rolesRemove")
        ELSE loopHead(s, f, fr.i + 1)

\* Lines 1020-1033: after await member.roles.remove.
handleAfterRemove(s, f) ==
    LET fr == s.frames[f]
    IN  loopHead(Emit(s, <<"reactionRoleRemove", fr.member, fr.perm[fr.i]>>), f, fr.i + 1)

\* One step of a suspended __handleReactionRoleAction call.
handleReactionRoleAction(s, f) ==
    LET pc == s.frames[f].pc
    IN  CASE pc = "usersFetch" -> handleAfterFetch(s, f)
          [] pc = "checkDeveloperRequirement" -> handleAfterRequirements(s, f)
          [] pc = "preRoleAddHook" -> handleAfterAddHook(s, f)
          [] pc = "rolesAdd" -> handleAfterAdd(s, f)
          [] pc = "preRoleRemoveHook" -> handleAfterRemoveHook(s, f)
          [] pc = "rolesRemove" -> handleAfterRemove(s, f)

\* -------------------------------------------- the settlement of a toggle timer
\* Lines 760-852, the callback run under locker.acquire(member.id).
SettleFrame(pc, m, message, skipped) ==
    [pc |-> pc, member |-> m, message |-> message, skipped |-> skipped,
     toggled |-> <<>>, i |-> 0, users |-> {}]

\* The registry in insertion order.
RegistryOrder == <<"M1-e1", "M1-e2", "M2-e1">>

toggledRolesArray(s, message) ==
    SelectSeq(RegistryOrder,
              LAMBDA id : id \in DOMAIN s.rr /\ s.rr[id].message = message /\ isToggle(s.rr[id]))

SettleGoto(s, m, pc) == [s EXCEPT !.locker[m][1].pc = pc]

RECURSIVE settleBegin(_, _)
\* The lock is released; the next queued callback starts.
settleRelease(s, m) ==
    LET s1 == [s EXCEPT !.locker[m] = Tail(@)]
    IN  IF Len(s1.locker[m]) > 0 THEN settleBegin(s1, m) ELSE s1

\* Line 852: await this.store(...toggledRoles), then the callback returns.
settleStore(s, m) ==
    settleRelease([Store(s, Range(s.locker[m][1].toggled)) EXCEPT
                       !.hist.settled[m] = IF s.scn.observe THEN @ + 1 ELSE @],
                  m)

\* A TypeError of the callback (role.editable of a role the guild no longer has).
settleThrow(s, m) == settleRelease(s, m)

\* Lines 806-818: the candidate kept, up to the first await.
settleGrant(s, m) ==
    LET fr == s.locker[m][1]
    IN  IF fr.skipped = None
        THEN settleStore(s, m)
        ELSE LET rr == s.rr[fr.skipped]
                 role == rr.roles[1]
                 s1 == checkRolesPermissions(s, ActionGive, rr, m)
             IN  IF role \notin s.env.roles
                 THEN settleThrow(s1, m)
                 ELSE IF ~Editable(s, role)
                 THEN SettleGoto(UsersRemove(s1, rr.id, m), m, "grantUsersRemove")
                 ELSE IF ~checkBoostRequirement(s1, rr, m)
                 THEN SettleGoto(missingBoost(s1, rr, m), m, "grantMissingRemove")
                 ELSE SettleGoto(s1, m, "grantDeveloper")

\* Lines 763-774: the loop head, up to await reaction.users.fetch() of entry i.
RECURSIVE settleLoop(_, _, _)
settleLoop(s, m, i) ==
    LET fr == s.locker[m][1]
    IN  IF i > Len(fr.toggled)
        THEN settleGrant(s, m)
        ELSE IF s.rr[fr.toggled[i]].disabled
             THEN settleLoop(s, m, i + 1)
             ELSE [s EXCEPT !.locker[m][1].i = i, !.locker[m][1].pc = "usersFetch"]

settleBegin(s, m) ==
    LET fr == s.locker[m][1]
        s1 == [s EXCEPT !.locker[m][1].toggled = toggledRolesArray(s, fr.message)]
    IN  settleLoop(s1, m, 1)

\* Lines 774-785 and 803: after await reaction.users.fetch().
settleAfterFetch(s, m) ==
    LET fr == s.locker[m][1]
        rr == s.rr[fr.toggled[fr.i]]
        users == s.env.reactions[rr.id]
        role == rr.roles[1]
    IN  IF m \in users /\ (fr.skipped = None \/ fr.skipped = rr.id)
        THEN settleLoop([s EXCEPT !.locker[m][1].skipped = rr.id], m, fr.i + 1)
        ELSE LET s1 == checkRolesPermissions([s EXCEPT !.locker[m][1].users = users],
                                             ActionTake, rr, m)
             IN  IF role \notin s.env.roles
                 THEN settleThrow(s1, m)
                 ELSE IF Editable(s, role)
                      THEN SettleGoto(s1, m, "preRoleRemoveHook")
                      ELSE SettleGoto(UsersRemove(s1, rr.id, m), m, "usersRemove")

\* The revoke path of the settlement leaving the member's reaction in place.
settleKeepReaction(s, m) == settleLoop(s, m, s.locker[m][1].i + 1)

\* Line 802: if (users.has(member.id)) await reaction.users.remove(member.user)
settleRemoveReaction(s, m) ==
    LET fr == s.locker[m][1]
        id == fr.toggled[fr.i]
    IN  IF m \in fr.users
        THEN SettleGoto(UsersRemove(s, id, m), m, "usersRemove")
        ELSE settleLoop(s, m, fr.i + 1)

\* Lines 785-803: after await preRoleRemoveHook.
settleAfterRemoveHook(s, m) ==
    LET fr == s.locker[m][1]
        rr == s.rr[fr.toggled[fr.i]]
        roleID == rr.roles[1]
        index == IndexOf(rr.winners, m)
    IN  IF preRoleRemoveHook(s, m, roleID, rr.id)
        THEN LET s1 == IF index >= 0 THEN [s EXCEPT !.rr[rr.id].winners = Splice(@, index)]
                       ELSE s
             IN  IF RolesCacheHas(s1, m, rr.id)
                 THEN SettleGoto(RolesRemove(s1, m, roleID), m, "rolesRemove")
                 ELSE settleRemoveReaction(s1, m)
        ELSE SettleGoto(UsersRemove(s, rr.id, m), m, "usersRemove")

\* Lines 791-802: after await member.roles.remove.
settleAfterRemove(s, m) ==
    LET fr == s.locker[m][1]
        rr == s.rr[fr.toggled[fr.i]]
    IN  settleRemoveReaction(Emit(s, <<"reactionRoleRemove", m, rr.roles[1]>>), m)

\* Lines 817-818: after await checkDeveloperRequirement inside __checkRequirements.
settleAfterRequirements(s, m) ==
    LET fr == s.locker[m][1]
        rr == s.rr[fr.skipped]
    IN  IF ~checkDeveloperRequirement(s, rr, m)
        THEN SettleGoto(missingDeveloper(s, rr, m), m, "grantMissingRemove")
        ELSE SettleGoto(s, m, "grantAddHook")

\* Lines 818-849: after await preRoleAddHook.
settleAfterAddHook(s, m) ==
    LET fr == s.locker[m][1]
        rr == s.rr[fr.skipped]
        roleID == rr.roles[1]
    IN  IF preRoleAddHook(s, m, roleID, rr.id)
        THEN LET s1 == IF IndexOf(rr.winners, m) <= -1
                       THEN [s EXCEPT !.rr[rr.id].winners = Append(@, m)]
                       ELSE s
             IN  IF ~RolesCacheHas(s1, m, roleID)
                 THEN SettleGoto(RolesAdd(s1, m, roleID), m, "grantRolesAdd")
                 ELSE settleStore(s1, m)
        ELSE SettleGoto(UsersRemove(s, rr.id, m), m, "grantUsersRemove")

\* One step of the running settlement of member m.
settleStep(s, m) ==
    LET fr == s.locker[m][1]
        pc == fr.pc
    IN  CASE pc = "usersFetch" -> settleAfterFetch(s, m)
          [] pc = "preRoleRemoveHook" -> settleAfterRemoveHook(s, m)
          [] pc = "rolesRemove" -> settleAfterRemove(s, m)
          [] pc = "usersRemove" -> settleLoop(s, m, fr.i + 1)
          [] pc = "grantMissingRemove" ->
                \* __checkRequirements resolved false: the else branch of line 849
                SettleGoto(UsersRemove(s, fr.skipped, m), m, "grantUsersRemove")
          [] pc = "grantDeveloper" -> settleAfterRequirements(s, m)
          [] pc = "grantAddHook" -> settleAfterAddHook(s, m)
          [] pc = "grantRolesAdd" ->
                settleStore(Emit(s, <<"reactionRoleAdd", m, s.rr[fr.skipped].roles[1]>>), m)
          [] pc = "grantUsersRemove" -> settleStore(s, m)

\* locker.acquire(member.id, callback): run now, or queue behind the running one.
lockerAcquire(s, m, message, skipped) ==
    LET s1 == [s EXCEPT !.locker[m] = Append(@, SettleFrame("queued", m, message, skipped))]
    IN  IF isBusy(s, m) THEN s1 ELSE settleBegin(s1, m)

\* The oldest timer of the debounce delay fires.
timerFire(s) ==
    LET t == Head(s.timers)
        s1 == [s EXCEPT !.timers = Tail(@)]
    IN  IF t.kind = "retry"
        THEN timeoutToggledRoles(s1, t.member, t.message, t.skipped, t.tries)
        ELSE lockerAcquire([s1 EXCEPT !.timeouts[t.member] = FALSE],
                           t.member, t.message, t.skipped)

\* ------------------------------------------------------------ gateway events
\* No user is taken for a bot.
NoBots == {}

Bots == {BotUser}

EventRecord(type, u, id, s) ==
    [type |-> type, user |-> u, id |-> id, after |-> s.hist.done]

NextEvent(s, type, u, id) ==
    [s EXCEPT !.nEvents = @ + 1,
              !.hist.events = IF s.scn.observe THEN Append(@, EventRecord(type, u, id, s))
                              ELSE @]

\* Lines 714-736 (add) and 877-899 (remove): the handler up to its first await.
onReaction(s, action, u, id) ==
    LET f == s.nEvents
    IN  IF u \in Bots \/ u \notin s.env.members \/ id \notin DOMAIN s.rr
        THEN Finish(s, f)
        ELSE handleStart(s, f, action, u, id)

onReactionAdd(s, u, id) == onReaction(NextEvent(s, "add", u, id), ActionGive, u, id)

onReactionRemove(s, u, id) == onReaction(NextEvent(s, "remove", u, id), ActionTake, u, id)

\* The same handler, for the event of a reaction the bot itself removed.
onReactionRemoved(s, u, id) == onReaction(NextEvent(s, "removed", u, id), ActionTake, u, id)

\* ------------------------------------------------ deleteReactionRole, cascade
\* Lines 596-604: the binding is disabled; with disabledProperty (the default)
\* it is stored, else with mongoose its document is deleted, else it is taken
\* out of the collection.
deleteReactionRole(s, id) ==
    LET s1 == [s EXCEPT !.rr[id].disabled = TRUE]
    IN  IF s.scn.disabledProperty
        THEN Store(s1, {id})
        ELSE IF s.scn.mongoose
        THEN [s1 EXCEPT !.env.db = [x \in DOMAIN @ \ {id} |-> @[x]]]
        ELSE [s1 EXCEPT !.rr = [x \in DOMAIN @ \ {id} |-> @[x]]]

\* client.guilds.resolve(x) of line 265: a role, channel or emoji resolves to its
\* guild when the guild is cached, a guild instance to itself, anything else
\* (a message, undefined) to null.
guildsResolve(s, kind, guild) ==
    CASE kind \in {"role", "channel", "emoji"} -> guild \in s.env.guilds
      [] kind = "guild" -> TRUE
      [] OTHER -> FALSE

\* Lines 264-271: __handleDeleted up to await channel.messages.fetch; TRUE in
\* .fetching when the call is suspended there.
handleDeletedStart(s, id, kind) ==
    LET rr == s.rr[id]
    IN  IF ~guildsResolve(s, kind, rr.guild)
        THEN [state |-> deleteReactionRole(s, id), fetching |-> FALSE]
        ELSE IF rr.channel \notin s.env.channels
             THEN [state |-> deleteReactionRole(s, id), fetching |-> FALSE]
             ELSE [state |-> s, fetching |-> TRUE]

\* Lines 1069-1071: emoji.id || this.client.emojis.resolveIdentifier(emoji.name);
\* resolveIdentifier gives the name of a unicode emoji and null for undefined.
resolveReactionEmoji(emoji) ==
    IF emoji.id # None THEN emoji.id ELSE emoji.name

\* A MessageReaction of the message cache: it has an emoji, and neither an id
\* nor a name of its own.
MessageReaction(id) ==
    [id |-> None, name |-> None, emoji |-> [id |-> None, name |-> EmojiOf(id)]]

ReactionsCache(s, message) ==
    {MessageReaction(id) : id \in {x \in BindingIds : MessageOf(x) = message
                                                      /\ s.env.reactions[x] # {}}}

\* Lines 274-276: the reaction of the binding among the message's reactions.
handleDeletedFind(s, rr) ==
    {x \in ReactionsCache(s, rr.message) :
        rr.id = MakeId(rr.message, resolveReactionEmoji(x))}

\* reaction.remove(): the platform drops every reaction of that emoji.
ReactionRemoveEmoji(s, id) ==
    [Call(s, <<"removeEmoji", id>>) EXCEPT !.env.reactions[id] = {}]

\* Lines 271-279: after await channel.messages.fetch.  A fetch of a message that
\* no longer exists rejects, and the call ends there.
handleDeletedAfterFetch(s, f) ==
    LET id == s.frames[f].rr
        rr == s.rr[id]
    IN  IF rr.message \notin s.env.messages
        THEN Finish(s, f)
        ELSE IF handleDeletedFind(s, rr) = {}
             THEN Finish(deleteReactionRole(s, id), f)
             ELSE Finish(ReactionRemoveEmoji(s, id), f)

\* Lines 221-247: the delete handlers find the first binding that refers to the
\* deleted entity and hand it to __handleDeleted.
Refers(rr, kind, x) ==
    CASE kind = "role" -> x \in Range(rr.roles)
      [] kind = "emoji" -> rr.emoji = x
      [] kind = "guild" -> rr.guild = x
      [] kind = "channel" -> rr.channel = x
      [] kind = "message" -> rr.message = x

onDelete(s, kind, x) ==
    LET f == s.nEvents
        found == SelectSeq(RegistryOrder,
                          LAMBDA id : id \in DOMAIN s.rr /\ Refers(s.rr[id], kind, x))
    IN  IF found = <<>>
        THEN Finish(s, f)
        ELSE LET r == handleDeletedStart(s, found[1], kind)
             IN  IF r.fetching
                 THEN [r.state EXCEPT !.frames[f] =
                          [NoFrame EXCEPT !.kind = "deleted", !.pc = "messagesFetch",
                                          !.rr = found[1]]]
                 ELSE Finish(r.state, f)

\* ------------------------------------------------------ __onRemoveAllReaction
\* Lines 907-949: the loops over the bindings of the message (i), the winners of
\* the binding (j, counted from 0) and the roles the bot may manage (k), up to
\* the await of the hook of role k; k = 0 is the head of a winner's iteration.
RECURSIVE removeAllLoop(_, _, _, _, _)
removeAllLoop(s, f, i, j, k) ==
    LET fr == s.frames[f]
    IN  IF i > Len(fr.arr)
        THEN Finish(Emit(s, <<"allReactionsRemove", fr.member, fr.affected.roles,
                              fr.affected.members, fr.affected.taken>>), f)
        ELSE LET rr == s.rr[fr.arr[i]]
             IN  IF j >= Len(rr.winners)
                 THEN removeAllLoop(deleteReactionRole(s, rr.id), f, i + 1, 0, 0)
                 ELSE LET winnerId == rr.winners[j + 1]
                      IN  IF winnerId \notin s.env.members
                          THEN removeAllLoop(s, f, i, j + 1, 0)
                          ELSE IF k = 0
                          THEN LET s1 == checkRolesPermissions(s, ActionTake, rr, winnerId)
                               IN  removeAllLoop(
                                       [s1 EXCEPT !.frames[f].perm = RolesWithPermission(s, rr),
                                                  !.frames[f].rr = winnerId],
                                       f, i, j, 1)
                          ELSE IF k > Len(fr.perm)
                          THEN removeAllLoop([s EXCEPT !.frames[f].affected.taken = @ + 1],
                                             f, i, j + 1, 0)
                          ELSE [s EXCEPT !.frames[f].i = i, !.frames[f].j = j,
                                         !.frames[f].k = k,
                                         !.frames[f].pc = "preRoleRemoveHook"]

\* The handler of messageReactionRemoveAll looking for one binding of the
\* message only.
onRemoveAllReactionFirst(s, message) ==
    LET f == s.nEvents
        arr == SelectSeq(RegistryOrder,
                         LAMBDA id : id \in DOMAIN s.rr /\ s.rr[id].message = message)
    IN  IF Len(arr) <= 0
        THEN Finish(s, f)
        ELSE removeAllLoop([s EXCEPT !.frames[f] =
                               [NoFrame EXCEPT !.kind = "removeAll", !.member = message,
                                               !.arr = SubSeq(arr, 1, 1)]],
                           f, 1, 0, 0)

\* Lines 907-913: the handler of messageReactionRemoveAll up to its first await.
\* The frame keeps the message in .member and the winner at hand in .rr.
onRemoveAllReaction(s, message) ==
    LET f == s.nEvents
        arr == SelectSeq(RegistryOrder,
                         LAMBDA id : id \in DOMAIN s.rr /\ s.rr[id].message = message)
    IN  IF Len(arr) <= 0
        THEN Finish(s, f)
        ELSE removeAllLoop([s EXCEPT !.frames[f] =
                               [NoFrame EXCEPT !.kind = "removeAll", !.member = message,
                                               !.arr = arr]],
                           f, 1, 0, 0)

\* Array push and Collection set of a value that is not there yet.
PushNew(seq, x) == IF x \in Range(seq) THEN seq ELSE Append(seq, x)

\* Lines 930-936: after await preRoleRemoveHook, and after await roles.remove.
\* The member is pushed onto membersAffected after the removal (line 932); the
\* role is set in rolesAffected whatever the hook answered (line 935).
removeAllStep(s, f) ==
    LET fr == s.frames[f]
        role == fr.perm[fr.k]
        rr == s.rr[fr.arr[fr.i]]
        s1 == IF fr.pc = "rolesRemove"
              THEN [s EXCEPT !.frames[f].affected.members = PushNew(@, fr.rr)]
              ELSE s
    IN  IF fr.pc = "preRoleRemoveHook" /\ preRoleRemoveHook(s, fr.rr, role, rr.id)
        THEN Goto(RolesRemove(s, fr.rr, role), f, "rolesRemove")
        ELSE removeAllLoop([s1 EXCEPT !.frames[f].affected.roles = PushNew(@, role)],
                           f, fr.i, fr.j, fr.k + 1)

\* ------------------------------------------------------------- __readyTimeout
\* Lines 857-868.
\* __readyTimeout arming the timer whether or not the manager is ready.
readyTimeoutAlways(s) == [s EXCEPT !.timeouts["ready_timeout"] = TRUE]

readyTimeout(s) ==
    LET s1 == [s EXCEPT !.timeouts["ready_timeout"] = FALSE]
    IN  IF s1.isReady THEN s1 ELSE [s1 EXCEPT !.timeouts["ready_timeout"] = TRUE]

readyFire(s) ==
    Emit([s EXCEPT !.isReady = TRUE, !.timeouts["ready_timeout"] = FALSE], <<"ready">>)

\* ------------------------------------------------------------ __resfreshOnBoot
\* Lines 670-697: __parseStorage sets every binding of the JSON file, and with
\* mongoose every document found with disabled: false, that is not disabled;
\* the documents come after the file's entries and replace them.
parseStorage(s) ==
    LET found == IF s.scn.mongoose
                 THEN {id \in DOMAIN s.env.db : ~s.env.db[id].disabled}
                 ELSE {}
        loaded == {id \in DOMAIN s.store : ~s.store[id].disabled} \cup found
    IN  [s EXCEPT !.rr = [id \in (DOMAIN s.rr) \cup loaded |->
                              IF id \in found THEN s.env.db[id]
                              ELSE IF id \in loaded THEN s.store[id] ELSE s.rr[id]]]

BootGoto(s, pc) == [s EXCEPT !.boot.pc = pc]

\* Lines 360-383: the loop over the bindings, up to await channel.messages.fetch.
RECURSIVE bootLoop(_, _)
bootLoop(s, i) ==
    IF i > Len(s.boot.arr)
    THEN [s EXCEPT !.boot.pc = "done", !.boot.i = i]
    ELSE LET rr == s.rr[s.boot.arr[i]]
         IN  IF rr.guild \notin s.env.guilds
             THEN bootLoop(handleDeletedStart(s, rr.id, "undefined").state, i + 1)
             ELSE IF rr.channel \notin s.env.channels
                  THEN bootLoop(handleDeletedStart(s, rr.id, "guild").state, i + 1)
                  ELSE [s EXCEPT !.boot.pc = "messagesFetch", !.boot.i = i]

\* Line 443, then the next binding.
bootNext(s) == bootLoop(readyTimeout(s), s.boot.i + 1)

\* Lines 414-431: the loop over the winners, j counted from 0, up to the await
\* of the TAKE call.
RECURSIVE bootWinnersLoop(_, _)
bootWinnersLoop(s, j) ==
    LET id == s.boot.arr[s.boot.i]
        winners == s.rr[id].winners
    IN  IF j >= Len(winners)
        THEN bootNext(s)
        ELSE LET winnerId == winners[j + 1]
             IN  IF winnerId \notin s.env.members
                 THEN bootWinnersLoop([s EXCEPT !.rr[id].winners = Splice(@, j)], j + 1)
                 ELSE IF winnerId \in Bots
                 THEN bootWinnersLoop(s, j + 1)
                 ELSE IF winnerId \notin Range(s.boot.users)
                 THEN LET s1 == handleStart(s, BootCall, ActionTake, winnerId, id)
                      IN  IF s1.frames[BootCall].kind = "none"
                          THEN bootWinnersLoop(s1, j + 1)
                          ELSE [s1 EXCEPT !.boot.pc = "awaitTake", !.boot.j = j]
                 ELSE bootWinnersLoop(s, j + 1)

\* Lines 396-412: the loop over the fetched users, j counted from 1, up to the
\* await of users.remove or of the GIVE call.
RECURSIVE bootUsersLoop(_, _)
bootUsersLoop(s, j) ==
    LET id == s.boot.arr[s.boot.i]
    IN  IF j > Len(s.boot.users)
        THEN bootWinnersLoop(s, 0)
        ELSE LET user == s.boot.users[j]
             IN  IF user \in Bots
                 THEN bootUsersLoop(s, j + 1)
                 ELSE IF user \notin s.env.members
                 THEN [UsersRemove(s, id, user) EXCEPT !.boot.pc = "usersRemove", !.boot.j = j]
                 ELSE LET s1 == handleStart(s, BootCall, ActionGive, user, id)
                      IN  IF s1.frames[BootCall].kind = "none"
                          THEN bootUsersLoop(s1, j + 1)
                          ELSE [s1 EXCEPT !.boot.pc = "awaitGive", !.boot.j = j]

\* Lines 383-394: after await channel.messages.fetch(...).catch(() => null).
bootAfterMessageFetch(s) ==
    LET id == s.boot.arr[s.boot.i]
    IN  IF s.rr[id].message \notin s.env.messages
        THEN bootLoop(s, s.boot.i + 1)
        ELSE IF s.env.reactions[id] = {}
             THEN BootGoto([Call(s, <<"react", id>>) EXCEPT !.env.reactions[id] = {BotUser}],
                           "react")
             ELSE BootGoto(s, "usersFetch")

\* The call __resfreshOnBoot awaits has made a step; when it has returned, the
\* loop that awaited it goes on.
bootAfterCall(s) ==
    IF s.frames[BootCall].kind # "none"
    THEN s
    ELSE IF s.boot.pc = "awaitGive"
         THEN bootUsersLoop(s, s.boot.j + 1)
         ELSE bootWinnersLoop(s, s.boot.j + 1)

\* One step of __resfreshOnBoot; order is the order of the users the platform
\* returned (read at pc usersFetch only).
resfreshOnBoot(s, order) ==
    LET pc == s.boot.pc
    IN  CASE pc = "off" -> BootGoto(parseStorage(s), "sleep")
          [] pc = "sleep" ->
                bootLoop([s EXCEPT !.boot.arr =
                             SelectSeq(RegistryOrder, LAMBDA id : id \in DOMAIN s.rr)], 1)
          [] pc = "messagesFetch" -> bootAfterMessageFetch(s)
          [] pc = "react" -> BootGoto(s, "usersFetch")
          [] pc = "usersFetch" -> bootUsersLoop([s EXCEPT !.boot.users = order], 1)
          [] pc = "usersRemove" -> bootUsersLoop(s, s.boot.j + 1)
          [] pc \in {"awaitGive", "awaitTake"} ->
                bootAfterCall(handleReactionRoleAction(s, BootCall))

\* --------------------------------------------------------- createReactionRole
\* What the caller of createReactionRole or deleteReactionRole got and what the
\* registry, the store and the reactions were before and after: observation only.
NoApiCall == [call |-> "none", outcome |-> "none", args |-> <<>>, pre |-> <<>>, post |-> <<>>]

RegistrySnapshot(s) ==
    [rr |-> s.rr, store |-> s.store, reactions |-> s.env.reactions,
     roles |-> s.env.memberRoles]

ApiBegin(s, f, call, args) ==
    IF s.scn.observe
    THEN [s EXCEPT !.hist.api[f] = [call |-> call, outcome |-> "pending", args |-> args,
                                    pre |-> RegistrySnapshot(s), post |-> <<>>]]
    ELSE s

\* The promise of call f is rejected or resolved, or the executor threw and the
\* promise stays pending for ever ("thrown").
ApiEnd(s, f, outcome) ==
    Finish(IF s.scn.observe
           THEN [s EXCEPT !.hist.api[f].outcome = outcome,
                          !.hist.api[f].post = RegistrySnapshot(s)]
           ELSE s, f)

\* The message argument: a message of the guild, a Message of a DM channel, or
\* something that is not a Message.
isMessage(message) == message # "text"
isGuildMessage(message) == message \in {"M1", "M2"}

\* A role argument is <<kind, text>>.  guild.roles.resolveID(x) of discord.js:
\* the id of a Role instance, a string as it is, null for anything else.
resolveID(x) == IF x[1] \in {"Role", "string"} THEN x[2] ELSE None

\* isValidReactionRoleType; no type is the empty set.
isValidReactionRoleType(type) ==
    type # {} /\ type \subseteq {"NORMAL", "TOGGLE", "JUST_WIN", "JUST_LOSE", "REVERSED"}

\* Util.parseEmoji(text) of discord.js: a text without ':' is a unicode emoji
\* name; '<:name:id>' is a custom emoji; a text with ':' that does not match
\* gives null (.matched = FALSE).
parseEmoji(text) ==
    CASE text = ":x" -> [matched |-> FALSE, id |-> None, name |-> None]
      [] text = "<:x:9>" -> [matched |-> TRUE, id |-> "9", name |-> "x"]
      [] OTHER -> [matched |-> TRUE, id |-> None, name |-> text]

\* client.emojis.cache: the custom emojis the client knows.
EmojisCache == {}

Falsy(x) == x \in {None, ""}

\* Lines 580-621: deleteReactionRole called by the application with a binding
\* of the registry (its id, or None), a message and an emoji text (or None).
\* With disabledProperty the binding found is disabled and stored.
deleteReactionRoleCall(s, f, reactionRole, message, emoji) ==
    LET emojiParsed == parseEmoji(emoji)
        found == SelectSeq(RegistryOrder,
                           LAMBDA id : /\ id \in DOMAIN s.rr
                                       /\ s.rr[id].message = message
                                       /\ s.rr[id].emoji = resolveReactionEmoji(emojiParsed))
        target == IF message # None /\ emoji # None THEN found[1] ELSE reactionRole
    IN  IF message # None /\ emoji # None /\ ~emojiParsed.matched
        THEN ApiEnd(s, f, "thrown")
        ELSE IF message # None /\ emoji # None /\ Len(found) = 0
        THEN ApiEnd(s, f, "rejected")
        ELSE IF target # None
        THEN ApiEnd(deleteReactionRole(s, target), f, "resolved")
        ELSE ApiEnd(s, f, "rejected")

\* Lines 526-550: createReactionRole up to await message.react(emoji).
createReactionRole(s, f, message, roles, emoji, type, max) ==
    LET ids == SelectSeq([i \in 1..Len(roles) |-> resolveID(roles[i])],
                         LAMBDA r : r # None)
        emojiParsed == parseEmoji(emoji)
        e == resolveReactionEmoji(emojiParsed)
    IN  IF ~isMessage(message) THEN ApiEnd(s, f, "rejected")
        ELSE IF ~isGuildMessage(message) THEN ApiEnd(s, f, "rejected")
        ELSE IF type # {} /\ ~isValidReactionRoleType(type) THEN ApiEnd(s, f, "rejected")
        ELSE IF Len(ids) = 0 THEN ApiEnd(s, f, "rejected")
        ELSE IF ~emojiParsed.matched THEN ApiEnd(s, f, "thrown")
        ELSE IF Falsy(e) THEN ApiEnd(s, f, "rejected")
        ELSE IF emojiParsed.id # None /\ emojiParsed.id \notin EmojisCache
        THEN ApiEnd(s, f, "rejected")
        ELSE [s EXCEPT !.frames[f] =
                 [NoFrame EXCEPT !.kind = "register", !.pc = "react",
                                 !.rr = MakeId(message, e),
                                 !.arr = <<NewReactionRole(
                                             MakeId(message, e), ids,
                                             IF type = {} THEN {"NORMAL"} ELSE type,
                                             IF max <= 0 THEN 0 ELSE max,
                                             FALSE, FALSE, <<>>)>>]]

\* Lines 550-564: after await message.react(emoji), which rejects when the
\* message is gone.
createAfterReact(s, f) ==
    LET rr == s.frames[f].arr[1]
    IN  IF rr.message \notin s.env.messages
        THEN ApiEnd(s, f, "thrown")
        ELSE ApiEnd(Store(
                 [Call(s, <<"react", rr.id>>) EXCEPT
                      !.env.reactions[rr.id] = @ \cup {BotUser},
                      !.rr = [id \in DOMAIN s.rr \cup {rr.id} |->
                                 IF id = rr.id THEN rr ELSE s.rr[id]]], {rr.id}),
                    f, "resolved")

\* ------------------------------------------------------------------ actions
\* An event may be delivered: the budget is not spent, and in a serial scenario
\* the boot reconciliation and the handlers of the events before have returned.
Deliverable ==
    /\ nEvents < scn.budget
    /\ scn.serial => /\ \A f \in DOMAIN frames : frames[f].kind = "none"
                     /\ boot.pc = "done"

\* A member reacts with a binding's emoji; the gateway delivers messageReactionAdd.
ReactionAdd(u, id) ==
    /\ Deliverable
    /\ u \in env.members
    /\ MessageOf(id) \in env.messages
    /\ u \notin env.reactions[id]
    /\ Commit(onReactionAdd([St EXCEPT !.env.reactions[id] = @ \cup {u}], u, id))

\* A member takes their reaction back; the gateway delivers messageReactionRemove.
ReactionRemove(u, id) ==
    /\ Deliverable
    /\ u \in env.reactions[id]
    /\ <<id, u>> \notin pending
    /\ Commit(onReactionRemove([St EXCEPT !.env.reactions[id] = @ \ {u}], u, id))

\* The gateway delivers the messageReactionRemove of a reaction the bot removed.
ReactionRemoved(u, id) ==
    /\ Deliverable
    /\ <<id, u>> \in pending
    /\ Commit(onReactionRemoved([St EXCEPT !.pending = @ \ {<<id, u>>}], u, id))

\* A suspended __handleReactionRoleAction call of a gateway event resumes.
Handle(f) ==
    /\ f # BootCall
    /\ frames[f].kind = "action"
    /\ Commit(handleReactionRoleAction(St, f))

\* A role, channel, guild or message is deleted; the gateway delivers the event.
Delete(kind, x) ==
    /\ Deliverable
    /\ CASE kind = "role" -> x \in env.roles
         [] kind = "channel" -> x \in env.channels
         [] kind = "guild" -> x \in env.guilds
         [] kind = "message" -> x \in env.messages
    /\ LET e == CASE kind = "role" ->
                       [env EXCEPT !.roles = @ \ {x}, !.editable = @ \ {x},
                                   !.memberRoles = [m \in Users |-> @[m] \ {x}]]
                   [] kind = "channel" ->
                       [env EXCEPT !.channels = @ \ {x}, !.messages = {}]
                   [] kind = "guild" ->
                       [env EXCEPT !.guilds = @ \ {x}, !.channels = {}, !.messages = {}]
                   [] kind = "message" ->
                       [env EXCEPT !.messages = @ \ {x},
                                   !.reactions = [id \in BindingIds |->
                                                     IF MessageOf(id) = x THEN {} ELSE @[id]]]
       IN  Commit(onDelete(NextEvent([St EXCEPT !.env = e], kind, None, x), kind, x))

\* A suspended __handleDeleted call resumes.
HandleDeleted(f) ==
    /\ frames[f].kind = "deleted"
    /\ Commit(handleDeletedAfterFetch(St, f))

\* Somebody clears every reaction of a message; the gateway delivers
\* messageReactionRemoveAll.
RemoveAll(message) ==
    /\ Deliverable
    /\ message \in env.messages
    /\ LET e == [env EXCEPT !.reactions = [id \in BindingIds |->
                                             IF MessageOf(id) = message THEN {} ELSE @[id]]]
       IN  Commit(onRemoveAllReaction(
                      NextEvent([St EXCEPT !.env = e], "removeAll", None, message), message))

\* A suspended __onRemoveAllReaction call resumes.
HandleRemoveAll(f) ==
    /\ frames[f].kind = "removeAll"
    /\ Commit(removeAllStep(St, f))

\* A member starts or stops boosting the guild.
BoostChange(m) ==
    /\ m \in env.members
    /\ Commit([St EXCEPT !.env.boosting = IF m \in @ THEN @ \ {m} ELSE @ \cup {m},
                         !.hist.boosted = IF scn.observe THEN @ \cup {m} ELSE @])

\* All orders in which the platform may list a set of users.
Orders(S) ==
    {q \in [1..Cardinality(S) -> S] : \A a, b \in 1..Cardinality(S) : a # b => q[a] # q[b]}

\* The awaits of the loop body that sit in the try block of lines 382-431 with
\* no catch of their own: message.react, reaction.users.fetch, users.remove.
BootPlatformCalls == {"react", "usersFetch", "usersRemove"}

\* Lines 432-441: the awaited platform call rejects with an error whose code
\* is not 10008; the catch block throws it again, which rejects the promise of
\* __resfreshOnBoot and ends the loop.
bootThrow(s) == BootGoto(s, "rejected")

\* client 'ready', and every later step of __resfreshOnBoot.
Boot ==
    /\ boot.pc \notin {"done", "rejected"}
    /\ IF boot.pc = "usersFetch"
       THEN \E order \in Orders(env.reactions[boot.arr[boot.i]]) :
                Commit(resfreshOnBoot(St, order))
       ELSE Commit(resfreshOnBoot(St, <<>>))

\* A platform call the boot loop awaits fails with something other than
\* Unknown Message.
BootReject ==
    /\ boot.pc \in BootPlatformCalls
    /\ Commit(bootThrow(St))

\* The 5000 ms timer of __readyTimeout fires.
ReadyFire ==
    /\ timeouts["ready_timeout"]
    /\ Commit(readyFire(St))

TimerFire ==
    /\ timers # <<>>
    /\ Commit(timerFire(St))

Settle(m) ==
    /\ Len(locker[m]) > 0
    /\ Commit(settleStep(St, m))

\* The application calls createReactionRole.
Register(message, roles, emoji, type, max) ==
    /\ Deliverable
    /\ LET s == NextEvent(St, "register", None, None)
       IN  Commit(createReactionRole(
                      ApiBegin(s, s.nEvents, "register", <<message, roles, emoji, type, max>>),
                      s.nEvents, message, roles, emoji, type, max))

\* The application calls deleteReactionRole.
Disable(reactionRole, message, emoji) ==
    /\ Deliverable
    /\ reactionRole \in DOMAIN reactionRoles \cup {None}
    /\ LET s == NextEvent(St, "disable", None, None)
       IN  Commit(deleteReactionRoleCall(
                      ApiBegin(s, s.nEvents, "disable", <<reactionRole, message, emoji>>),
                      s.nEvents, reactionRole, message, emoji))

\* A suspended createReactionRole call resumes.
HandleRegister(f) ==
    /\ frames[f].kind = "register"
    /\ Commit(createAfterReact(St, f))

\* The process ends and is started again: a new manager is constructed (lines
\* 128-216) and the client will emit ready; the JSON file and the database
\* are what they were.  The observation keeps the bindings that were disabled
\* or out of the collection when the process ended.
restart(s) ==
    [s EXCEPT !.rr = [id \in {} |-> NoFrame],
              !.timeouts = [m \in Users \cup {"ready_timeout"} |-> FALSE],
              !.timers = <<>>,
              !.locker = [m \in Users |-> <<>>],
              !.warned = {},
              !.isReady = FALSE,
              !.frames = [f \in 0..MaxEvents |-> NoFrame],
              !.boot = [pc |-> "off", arr |-> <<>>, i |-> 0, j |-> 0, users |-> <<>>],
              !.pending = {},
              !.hist.dropped =
                  IF s.scn.observe
                  THEN @ \cup {id \in BindingIds :
                                  \/ id \in DOMAIN s.rr /\ s.rr[id].disabled
                                  \/ id \in s.hist.cfg.ids \ DOMAIN s.rr}
                  ELSE @]

Restart ==
    /\ Deliverable
    /\ boot.pc = "done"
    /\ \A f \in DOMAIN frames : frames[f].kind = "none"
    /\ Commit(restart(NextEvent(St, "restart", None, None)))

\* ------------------------------------------------------------ initial states
NoBoot == [pc |-> "done", arr |-> <<>>, i |-> 0, j |-> 0, users |-> <<>>]

Env0 ==
    [guilds |-> {"G1"}, channels |-> {"C1"}, messages |-> {"M1"}, roles |-> Roles,
     editable |-> Roles, members |-> Members, boosting |-> {}, developers |-> {},
     memberRoles |-> [m \in Users |-> {}],
     reactions |-> [id \in BindingIds |-> {BotUser}],
     hookAdd |-> Roles, hookRemove |-> Roles, db |-> <<>>]

Hist(cfg) ==
    [cfg |-> cfg, events |-> <<>>, done |-> {}, boosted |-> {},
     armed |-> [m \in Users |-> 0], settled |-> [m \in Users |-> 0], last |-> NoCall,
     sched |-> [m \in Users |-> None],
     api |-> [f \in 1..MaxEvents |-> NoApiCall], dropped |-> {}]

\* The manager running with the registry rrs on the platform e.
InitWith(rrs, e, h, sc) ==
    /\ reactionRoles = rrs
    /\ timeouts = [m \in Users \cup {"ready_timeout"} |-> FALSE]
    /\ timers = <<>>
    /\ locker = [m \in Users |-> <<>>]
    /\ warned = {}
    /\ isReady = TRUE
    /\ frames = [f \in 0..MaxEvents |-> NoFrame]
    /\ boot = NoBoot
    /\ env = e
    /\ pending = {}
    /\ nEvents = 0
    /\ store = [id \in DOMAIN rrs |-> toJSON(rrs[id])]
    /\ emitted = EmptyBag
    /\ calls = EmptyBag
    /\ hist = h
    /\ scn = sc

\* The process starts: the registry is empty, the JSON file holds stored, and the
\* client has yet to emit ready.
InitBoot(stored, e, h, sc) ==
    /\ reactionRoles = [id \in {} |-> NoFrame]
    /\ timeouts = [m \in Users \cup {"ready_timeout"} |-> FALSE]
    /\ timers = <<>>
    /\ locker = [m \in Users |-> <<>>]
    /\ warned = {}
    /\ isReady = FALSE
    /\ frames = [f \in 0..MaxEvents |-> NoFrame]
    /\ boot = [NoBoot EXCEPT !.pc = "off"]
    /\ env = e
    /\ pending = {}
    /\ nEvents = 0
    /\ store = stored
    /\ emitted = EmptyBag
    /\ calls = EmptyBag
    /\ hist = h
    /\ scn = sc

\* ---------------------------------------------------------- specifications
RoleOf(id) == IF id = "M1-e2" THEN "R2" ELSE "R1"

\* The platform with the members of Holders holding the role of M1-e1 and the
\* users of reactors reacting on it.
EnvWith(holders, reactors) ==
    [Env0 EXCEPT !.memberRoles = [m \in Users |-> IF m \in holders THEN {"R1"} ELSE {}],
                 !.reactions["M1-e1"] = reactors \cup {BotUser}]

\* A scenario: the number of gateway events delivered, whether the properties'
\* observations are recorded, and whether an event waits for the handlers of
\* the events before it.
\* The manager's options are the defaults but for the JSON path, which is set:
\* disabledProperty true (line 193), no mongoDbLink (line 181).
Scenario(budget, observe, serial) ==
    [budget |-> budget, observe |-> observe, serial |-> serial,
     disabledProperty |-> TRUE, mongoose |-> FALSE, json |-> TRUE]

TwoBindings(t, max, w) ==
    [id \in {"M1-e1", "M1-e2"} |->
        NewReactionRole(id, <<RoleOf(id)>>, t, max, FALSE, FALSE,
                        IF id = "M1-e1" THEN w ELSE <<>>)]

\* Two bindings on one message, both NORMAL or both TOGGLE, unbounded or with
\* max = 1.  A reacts on both and takes reactions back; B reacts on the first.
InitLive ==
    \E t \in {{"NORMAL"}, {"TOGGLE"}}, max \in {0, 1} :
        InitWith(TwoBindings(t, max, <<>>), Env0, Hist(None),
                 Scenario(MaxEvents, FALSE, FALSE))

\* The process boots from one stored binding while members react.  A was
\* recorded as its winner before the restart and still has the reaction, and
\* has lost the role since.
InitRestart ==
    \E t \in {{"NORMAL"}, {"TOGGLE"}}, max \in {0, 1} :
        InitBoot([id \in {"M1-e1"} |->
                     NewReactionRole(id, <<"R1">>, t, max, FALSE, FALSE, <<"A">>)],
                 EnvWith({}, {"A"}), Hist(None),
                 Scenario(MaxEvents - 1, FALSE, FALSE))

Init == InitLive \/ InitRestart

Next ==
    \/ \E id \in {"M1-e1", "M1-e2"} : ReactionAdd("A", id)
    \/ ReactionAdd("B", "M1-e1")
    \/ \E id \in {"M1-e1", "M1-e2"} : ReactionRemove("A", id)
    \/ \E u \in {"A", "B"}, id \in {"M1-e1", "M1-e2"} : ReactionRemoved(u, id)
    \/ \E f \in 1..MaxEvents : Handle(f)
    \/ TimerFire
    \/ \E m \in Members : Settle(m)
    \/ Boot
    \/ ReadyFire

Spec == Init /\ [][Next]_vars

\* One NORMAL binding with one role and max = 1 and no winner yet, as
\* createReactionRole (lines 535-559) makes it, with or without the boost
\* requirement; every member is eligible.
InitCapacity ==
    \E boost \in BOOLEAN :
        InitWith([id \in {"M1-e1"} |->
                     NewReactionRole(id, <<"R1">>, {"NORMAL"}, 1, boost, FALSE, <<>>)],
                 [Env0 EXCEPT !.boosting = Members], Hist(None),
                 Scenario(MaxEvents, TRUE, FALSE))

NextCapacity ==
    \/ \E u \in {"A", "B"} : ReactionAdd(u, "M1-e1")
    \/ \E u \in {"A", "B"} : ReactionRemove(u, "M1-e1")
    \/ \E u \in {"A", "B"} : ReactionRemoved(u, "M1-e1")
    \/ \E f \in 1..MaxEvents : Handle(f)

SpecCapacity == InitCapacity /\ [][NextCapacity]_vars

\* Two TOGGLE bindings on one message, unbounded or with max = 1; member A holds
\* neither role, reacts and takes no reaction back.
InitToggle ==
    \E max \in {0, 1} :
        InitWith(TwoBindings({"TOGGLE"}, max, <<>>), Env0, Hist(None),
                 Scenario(MaxEvents, TRUE, FALSE))

NextToggle ==
    \/ \E id \in {"M1-e1", "M1-e2"} : ReactionAdd("A", id)
    \/ \E id \in {"M1-e1", "M1-e2"} : ReactionRemoved("A", id)
    \/ \E f \in 1..MaxEvents : Handle(f)
    \/ TimerFire
    \/ Settle("A")

SpecToggle == InitToggle /\ [][NextToggle]_vars

\* One binding that needs a boost, NORMAL or TOGGLE; member A, boosting or not,
\* reacts, and may start or stop boosting at any time.
InitGate ==
    \E t \in {{"NORMAL"}, {"TOGGLE"}}, b \in {{}, {"A"}} :
        InitWith([id \in {"M1-e1"} |->
                     NewReactionRole(id, <<"R1">>, t, 0, TRUE, FALSE, <<>>)],
                 [Env0 EXCEPT !.boosting = b], [Hist(None) EXCEPT !.boosted = b],
                 Scenario(MaxEvents, TRUE, FALSE))

NextGate ==
    \/ ReactionAdd("A", "M1-e1")
    \/ ReactionRemove("A", "M1-e1")
    \/ ReactionRemoved("A", "M1-e1")
    \/ \E f \in 1..MaxEvents : Handle(f)
    \/ TimerFire
    \/ Settle("A")
    \/ BoostChange("A")

SpecGate == InitGate /\ [][NextGate]_vars

\* Sequences without repetition of the elements of S.
Lists(S) ==
    UNION {{q \in [1..n -> S] : \A a, b \in 1..n : a # b => q[a] # q[b]} :
              n \in 0..Cardinality(S)}

\* The process boots from one stored NORMAL unbounded binding: any recorded
\* winners, any set of users still reacting, any set of users still members of
\* the guild.  The recorded winners who are still members hold the role.
InitBootDrift ==
    \E w \in Lists(Members), reactors \in SUBSET Members, members \in SUBSET Members :
        InitBoot([id \in {"M1-e1"} |->
                     NewReactionRole(id, <<"R1">>, {"NORMAL"}, 0, FALSE, FALSE, w)],
                 [EnvWith(Range(w) \cap members, reactors) EXCEPT !.members = members],
                 Hist([winners |-> w, reactors |-> reactors, members |-> members]),
                 Scenario(MaxEvents, TRUE, TRUE))

NextBootDrift ==
    \/ Boot
    \/ ReadyFire
    \/ \E u \in Members : ReactionRemoved(u, "M1-e1")

SpecBoot == InitBootDrift /\ [][NextBootDrift]_vars

\* Two enabled NORMAL bindings on one message of one channel of one guild, each
\* with its role; members react while a role, the channel, the guild or the
\* message is deleted.
InitCascade ==
    InitWith(TwoBindings({"NORMAL"}, 0, <<>>), Env0, Hist(None),
             Scenario(MaxEvents, TRUE, FALSE))

NextCascade ==
    \/ \E id \in {"M1-e1", "M1-e2"} : ReactionAdd("A", id)
    \/ \E f \in 1..MaxEvents : Handle(f)
    \/ \E x \in {"R1", "R2"} : Delete("role", x)
    \/ Delete("channel", "C1")
    \/ Delete("guild", "G1")
    \/ Delete("message", "M1")
    \/ \E f \in 1..MaxEvents : HandleDeleted(f)

SpecCascade == InitCascade /\ [][NextCascade]_vars

\* The process boots from one stored binding of any single kind but TOGGLE, with
\* one or two roles, unbounded or with max = 1, A recorded as winner or not,
\* holding any of the roles, reacting or not; then A reacts and takes the
\* reaction back, each event handled before the next is delivered.
InitSerial ==
    \E t \in {{"NORMAL"}, {"REVERSED"}, {"JUST_WIN"}, {"JUST_LOSE"}},
       roles \in {<<"R1">>, <<"R1", "R2">>}, max \in {0, 1},
       w \in {<<>>, <<"A">>}, held \in SUBSET Roles, reactors \in SUBSET {"A"} :
        InitBoot([id \in {"M1-e1"} |-> NewReactionRole(id, roles, t, max, FALSE, FALSE, w)],
                 [EnvWith({}, reactors) EXCEPT !.memberRoles["A"] = held],
                 Hist(None), Scenario(MaxEvents, TRUE, TRUE))

NextSerial ==
    \/ Boot
    \/ ReadyFire
    \/ ReactionAdd("A", "M1-e1")
    \/ ReactionRemove("A", "M1-e1")
    \/ ReactionRemoved("A", "M1-e1")
    \/ \E f \in 1..MaxEvents : Handle(f)

SpecSerial == InitSerial /\ [][NextSerial]_vars

\* ------------------------------------------------------------------- claims
NoDuplicates(seq) == \A a, b \in 1..Len(seq) : a # b => seq[a] # seq[b]

\* C1: every binding with max = m > 0 has at most m winners in every reachable
\* state, whatever the interleaving of the handlers, the toggle settlements and
\* the boot reconciliation.
C1_WinnersWithinMax ==
    \A id \in DOMAIN reactionRoles :
        reactionRoles[id].max > 0 => Len(reactionRoles[id].winners) <= reactionRoles[id].max

\* C3: in every reachable state a member id occurs at most once in the winners
\* list of a binding, whatever the interleaving of GRANT and REVOKE handling,
\* toggle settlements and boot reconciliation.
C3_WinnersUnique ==
    \A id \in DOMAIN reactionRoles : NoDuplicates(reactionRoles[id].winners)

\* C3 witness: a GRANT is about to push a member who is in winners already (the
\* role was taken off by a REVOKE that has yet to splice, or was lost while the
\* process was down).
C3_Witness ==
    \E f \in 0..MaxEvents :
        /\ frames[f].kind = "action"
        /\ frames[f].pc = "rolesAdd"
        /\ frames[f].member \in Range(reactionRoles[frames[f].rr].winners)

\* The events of user u delivered so far, by number.
EventsOf(u) == {k \in 1..Len(hist.events) : hist.events[k].user = u}

\* X and Y react on M1-e1 in that order: X's reaction is the first event, its
\* handler has returned before Y's first reaction is delivered, and X has not
\* taken the reaction back.
ReactInOrder(X, Y) ==
    /\ X # Y
    /\ EventsOf(X) = {1}
    /\ hist.events[1].type = "add"
    /\ EventsOf(Y) # {}
    /\ \A k \in EventsOf(Y) : 1 \in hist.events[k].after

\* C2: on a NORMAL binding with one role R and max = 1 and no winner, when X and
\* then Y react, X's reaction handled before Y's is delivered, X is given R and
\* recorded as the only winner; Y is never recorded, never given R, no
\* role-granted event is emitted for Y, and Y's reaction is removed once Y's
\* events are handled.
C2_CapacityRejectsSecond ==
    \A X, Y \in {"A", "B"} :
        ReactInOrder(X, Y) =>
            /\ reactionRoles["M1-e1"].winners = <<X>>
            /\ "R1" \in env.memberRoles[X]
            /\ Count(emitted, <<"reactionRoleAdd", X, "R1">>) = 1
            /\ "R1" \notin env.memberRoles[Y]
            /\ Count(calls, <<"addRole", Y, "R1">>) = 0
            /\ Count(emitted, <<"reactionRoleAdd", Y, "R1">>) = 0
            /\ EventsOf(Y) \subseteq hist.done => Y \notin env.reactions["M1-e1"]

\* C2 witness: X reacted and was handled, then Y reacted, and Y's reaction was
\* handled and taken off by the bot.
C2_Witness ==
    /\ ReactInOrder("A", "B")
    /\ EventsOf("B") \subseteq hist.done
    /\ Count(calls, <<"removeReaction", "M1-e1", "B">>) = 1

\* Nothing is in flight: no handler suspended, no timer pending, no settlement
\* running or queued, no gateway event undelivered.
Settled ==
    /\ \A f \in DOMAIN frames : frames[f].kind = "none"
    /\ timers = <<>>
    /\ \A m \in Members : locker[m] = <<>>
    /\ pending = {}

\* A added the reactions of both TOGGLE bindings of message M1 and took none
\* back, and both were handled within one debounce window: each handler armed
\* the member's timer, the second in place of the first, and one settlement ran.
BothWithinOneWindow ==
    /\ \E a, b \in EventsOf("A") :
          /\ a # b
          /\ {k \in EventsOf("A") : hist.events[k].type = "add"} = {a, b}
          /\ {hist.events[a].id, hist.events[b].id} = {"M1-e1", "M1-e2"}
    /\ \A k \in EventsOf("A") : hist.events[k].type # "remove"
    /\ hist.armed["A"] = 2
    /\ hist.settled["A"] = 1

BootDone == boot.pc = "done" /\ "M1-e1" \in DOMAIN reactionRoles

\* The drift of the example: winners [A, B] recorded, both holding the role, and
\* the live reactors are A and C, all three members of the guild.
DriftAB == hist.cfg = [winners |-> <<"A", "B">>, reactors |-> {"A", "C"}, members |-> Members]

\* C5: a NORMAL unbounded binding persisted with winners [A, B], both holding
\* the role, whose message now has the reactors {A, C}: after the boot
\* reconciliation winners is [A, C], B no longer has the role and C has it.
C5_BootReconcilesDrift ==
    (BootDone /\ DriftAB) =>
        /\ reactionRoles["M1-e1"].winners = <<"A", "C">>
        /\ "R1" \notin env.memberRoles["B"]
        /\ "R1" \in env.memberRoles["C"]
        /\ "R1" \in env.memberRoles["A"]

\* C5 witness: the boot reconciliation of that drift has finished, having added
\* the role to C and removed it from B.
C5_Witness ==
    /\ BootDone
    /\ DriftAB
    /\ Count(calls, <<"addRole", "C", "R1">>) = 1
    /\ Count(calls, <<"removeRole", "B", "R1">>) = 1

\* C6: after the boot reconciliation of a binding, whatever the persisted
\* winners and the fetched reactors, every persisted winner who is not among the
\* reactors is off the winners list and does not hold the role.
C6_AbsentWinnersDropped ==
    BootDone =>
        \A m \in Range(hist.cfg.winners) :
            m \notin hist.cfg.reactors =>
                /\ m \notin Range(reactionRoles["M1-e1"].winners)
                /\ "R1" \notin env.memberRoles[m]

DeleteKinds == {"role", "channel", "guild", "message"}

\* The binding id as it was created: TwoBindings gives M1-e1 the role R1 and
\* M1-e2 the role R2, both on message M1 of channel C1 of guild G1.
ReferredBy(id, kind, x) == Refers(TwoBindings({"NORMAL"}, 0, <<>>)[id], kind, x)

\* C7: once a role-deleted, channel-deleted, guild-deleted or message-deleted
\* event has been handled, every binding that referred to the deleted entity
\* is disabled, and no handler of a reaction event delivered afterwards is at
\* work on it.
C7_CascadeDisables ==
    \A k \in 1..Len(hist.events) :
        (hist.events[k].type \in DeleteKinds /\ k \in hist.done) =>
            \A id \in DOMAIN reactionRoles :
                ReferredBy(id, hist.events[k].type, hist.events[k].id) =>
                    /\ reactionRoles[id].disabled
                    /\ \A f \in 1..Len(hist.events) :
                          (hist.events[f].id = id /\ k \in hist.events[f].after)
                              => frames[f].kind = "none"

\* C8: on a binding that needs a boost, NORMAL or TOGGLE, a member who was not
\* boosting when a GRANT attempt was evaluated is not appended to winners by it
\* (a member who never boosted is never a winner), and the member's reaction is
\* removed once per violating attempt: as many removeReaction calls as
\* missing-requirement events, at hand-off and at toggle settlement alike.
C8_GatingRemovesOnce ==
    /\ "A" \in Range(reactionRoles["M1-e1"].winners) => "A" \in hist.boosted
    /\ Count(calls, <<"removeReaction", "M1-e1", "A">>)
           = Count(emitted, <<"missingRequirements", "BOOST", "A", "M1-e1">>)

\* The calls and events of kind tag for member m and the roles of binding rr
\* that a snapshot has counted.
Counted(bag, tag, m, rr) == [r \in Range(rr.roles) |-> Count(bag, <<tag, m, r>>)]

Without(seq, m) == SelectSeq(seq, LAMBDA x : x # m)

\* The last __handleReactionRoleAction call that returned ran action on the
\* binding, which is enabled.
LastCall(action) ==
    /\ hist.last.kind = "action"
    /\ hist.last.action = action
    /\ ~reactionRoles[hist.last.rr].disabled

\* C9: a GRANT on an enabled binding for a member who holds every role of the
\* binding issues no addRole call, emits no role-granted event and leaves no
\* second entry of the member in winners; and when the member is a winner
\* already, as after a first GRANT, the state after it is the state before it.
C9_GrantIdempotent ==
    LET c == hist.last
        rr == reactionRoles[c.rr]
    IN  (LastCall(ActionGive) /\ ~isJustLose(rr) /\ Range(rr.roles) \subseteq c.pre.roles) =>
            /\ Counted(c.post.calls, "addRole", c.member, rr)
                   = Counted(c.pre.calls, "addRole", c.member, rr)
            /\ Counted(c.post.emitted, "reactionRoleAdd", c.member, rr)
                   = Counted(c.pre.emitted, "reactionRoleAdd", c.member, rr)
            /\ NoDuplicates(c.post.winners)
            /\ c.member \in Range(c.pre.winners) =>
                  /\ c.post.winners = c.pre.winners
                  /\ c.post.roles = c.pre.roles
                  /\ c.post.reacted = c.pre.reacted

\* A REVOKE ran for a member who held none of the binding's roles.
RevokedHoldingNone ==
    /\ LastCall(ActionTake)
    /\ Range(reactionRoles[hist.last.rr].roles) \cap hist.last.pre.roles = {}

NoRoleRevoked ==
    LET c == hist.last
        rr == reactionRoles[c.rr]
    IN  /\ Counted(c.post.calls, "removeRole", c.member, rr)
               = Counted(c.pre.calls, "removeRole", c.member, rr)
        /\ Counted(c.post.emitted, "reactionRoleRemove", c.member, rr)
               = Counted(c.pre.emitted, "reactionRoleRemove", c.member, rr)
        /\ c.post.roles = c.pre.roles

\* C10 as stated: a REVOKE on an enabled binding for a member who holds none of
\* its roles issues no removeRole call, emits no role-revoked event and leaves
\* the winners list unchanged.
C10_RevokeLeavesWinners ==
    RevokedHoldingNone =>
        /\ NoRoleRevoked
        /\ hist.last.post.winners = hist.last.pre.winners

\* C10 amended: a REVOKE on an enabled binding for a member who holds none of
\* its roles issues no removeRole call and emits no role-revoked event; it
\* takes the member's entry, if there is one, off the winners list and leaves
\* the other entries as they are (a JUST_WIN binding ignores the REVOKE and
\* keeps the list whole).
C10_RevokeDropsOnlyWinnerEntry ==
    RevokedHoldingNone =>
        /\ NoRoleRevoked
        /\ hist.last.post.winners =
               IF isJustWin(reactionRoles[hist.last.rr])
               THEN hist.last.pre.winners
               ELSE Without(hist.last.pre.winners, hist.last.member)

\* C10 witness: a REVOKE returned for a recorded winner who held none of the
\* binding's roles.
C10_Witness ==
    /\ RevokedHoldingNone
    /\ hist.last.member \in Range(hist.last.pre.winners)
    /\ ~isJustWin(reactionRoles[hist.last.rr])

\* ------------------------------------------------------------- readiness
\* The process boots with storage enabled from any stored set of bindings,
\* none included, of two messages of one channel of one guild; the guild, the
\* channel and each message may be gone, and A may be reacting on the first.
InitReady ==
    \E ids \in SUBSET BindingIds, guilds \in SUBSET {"G1"}, channels \in SUBSET {"C1"},
       messages \in SUBSET {"M1", "M2"}, reactors \in SUBSET {"A"} :
        InitBoot([id \in ids |-> NewReactionRole(id, <<RoleOf(id)>>, {"NORMAL"}, 0,
                                                 FALSE, FALSE, <<>>)],
                 [EnvWith({}, reactors) EXCEPT !.guilds = guilds, !.channels = channels,
                                               !.messages = messages],
                 Hist([ids |-> ids]), Scenario(MaxEvents, TRUE, TRUE))

NextReady ==
    \/ Boot
    \/ ReadyFire

SpecReady == InitReady /\ [][NextReady]_vars

\* C11: after the client's ready event has started the boot reconciliation, the
\* manager becomes ready whatever was persisted.  The readiness timer is the
\* only way to isReady, so the reconciliation never returns leaving the manager
\* not ready with no readiness timer pending.
C11_BootEndsReady ==
    (boot.pc = "done" /\ ~timeouts["ready_timeout"]) =>
        (isReady /\ Count(emitted, <<"ready">>) >= 1)

\* C12: the ready signal is emitted at most once, whatever the number of
\* bindings reconciled; once isReady is true no readiness timer is pending.
C12_ReadyAtMostOnce ==
    /\ Count(emitted, <<"ready">>) <= 1
    /\ isReady => ~timeouts["ready_timeout"]
    /\ isReady <=> Count(emitted, <<"ready">>) = 1

\* C12 witness: the readiness timer armed by the first binding has fired and
\* the reconciliation is at work on a later binding, whose completion will
\* call __readyTimeout again.
C12_Witness ==
    /\ isReady
    /\ boot.pc = "usersFetch"
    /\ boot.i >= 2

\* ------------------------------------------------------------------ hooks
\* One NORMAL binding with the roles R1 and R2, or two TOGGLE bindings with one
\* role each, on message M1; A may be the recorded winner of the first and may
\* hold both roles.  The hooks given to the constructor (lines 190-201) return
\* true for the roles of hookAdd and hookRemove and false for the others; each
\* hook vetoes R1, or both roles.
InitHooks ==
    \E toggle \in BOOLEAN, w \in {<<>>, <<"A">>}, held \in {{}, Roles},
       add \in {{"R2"}, {}}, remove \in {{"R2"}, {}} :
        InitWith(IF toggle THEN TwoBindings({"TOGGLE"}, 0, w)
                 ELSE [id \in {"M1-e1"} |->
                          NewReactionRole(id, <<"R1", "R2">>, {"NORMAL"}, 0, FALSE, FALSE, w)],
                 [Env0 EXCEPT !.memberRoles["A"] = held, !.hookAdd = add,
                              !.hookRemove = remove],
                 Hist([held |-> held, winners |-> w]),
                 Scenario(MaxEvents - 1, TRUE, FALSE))

NextHooks ==
    \/ \E id \in {"M1-e1", "M1-e2"} : ReactionAdd("A", id)
    \/ \E id \in {"M1-e1", "M1-e2"} : ReactionRemove("A", id)
    \/ \E id \in {"M1-e1", "M1-e2"} : ReactionRemoved("A", id)
    \/ RemoveAll("M1")
    \/ \E f \in 1..MaxEvents : Handle(f)
    \/ \E f \in 1..MaxEvents : HandleRemoveAll(f)
    \/ TimerFire
    \/ Settle("A")

SpecHooks == InitHooks /\ [][NextHooks]_vars

\* C13: a role the pre-grant hook vetoes is never added to the member and no
\* role-granted event is emitted for it, and a binding all of whose roles are
\* vetoed gets no new winner; a role the pre-revoke hook vetoes is never removed
\* from the member and no role-revoked event is emitted for it.  This holds for
\* the direct path, the toggle settlement and the all-reactions-cleared pass.
C13_HookVeto ==
    /\ \A r \in Roles \ env.hookAdd :
          /\ Count(calls, <<"addRole", "A", r>>) = 0
          /\ Count(emitted, <<"reactionRoleAdd", "A", r>>) = 0
          /\ r \in env.memberRoles["A"] => r \in hist.cfg.held
    /\ \A r \in Roles \ env.hookRemove :
          /\ Count(calls, <<"removeRole", "A", r>>) = 0
          /\ Count(emitted, <<"reactionRoleRemove", "A", r>>) = 0
          /\ r \in hist.cfg.held => r \in env.memberRoles["A"]
    /\ \A id \in DOMAIN reactionRoles :
          Range(reactionRoles[id].roles) \cap env.hookAdd = {} =>
              Range(reactionRoles[id].winners) \subseteq Range(hist.cfg.winners)

\* C13 witness: a GRANT for A on the NORMAL binding returned with both hooks of
\* its roles answering false, A's reaction still in place.
C13_Witness ==
    /\ env.hookAdd = {}
    /\ LastCall(ActionGive)
    /\ ~isToggle(reactionRoles[hist.last.rr])
    /\ hist.last.pre.roles = {}
    /\ hist.last.post.reacted

\* ------------------------------------------------------ permission guard
\* One NORMAL binding with the roles R1 and R2, or two TOGGLE bindings with one
\* role each, on message M1.  The bot may not manage R1, or neither role; R2
\* may have been deleted from the guild.  A may be the recorded winner of the
\* first binding and hold its roles.
InitGuard ==
    \E toggle \in BOOLEAN, w \in {<<>>, <<"A">>}, editable \in {{"R2"}, {}},
       roles \in {Roles, {"R1"}} :
        InitWith(IF toggle THEN TwoBindings({"TOGGLE"}, 0, w)
                 ELSE [id \in {"M1-e1"} |->
                          NewReactionRole(id, <<"R1", "R2">>, {"NORMAL"}, 0, FALSE, FALSE, w)],
                 [Env0 EXCEPT !.memberRoles["A"] = IF w = <<>> THEN {} ELSE roles,
                              !.editable = editable \cap roles, !.roles = roles],
                 Hist(None), Scenario(MaxEvents - 1, TRUE, FALSE))

NextGuard ==
    \/ \E id \in {"M1-e1", "M1-e2"} : ReactionAdd("A", id)
    \/ ReactionAdd("B", "M1-e1")
    \/ \E u \in {"A", "B"} : ReactionRemove(u, "M1-e1")
    \/ \E u \in {"A", "B"}, id \in {"M1-e1", "M1-e2"} : ReactionRemoved(u, id)
    \/ RemoveAll("M1")
    \/ \E f \in 1..MaxEvents : Handle(f)
    \/ \E f \in 1..MaxEvents : HandleRemoveAll(f)
    \/ TimerFire
    \/ \E m \in {"A", "B"} : Settle(m)

SpecGuard == InitGuard /\ [][NextGuard]_vars

\* The missing-authorization events emitted so far that name role r for member m.
MissingPermissionsNaming(r, m) ==
    {e \in BagToSet(emitted) :
        e[1] = "missingPermissions" /\ e[3] = m /\ r \in Range(e[4])}

\* C14: for every role and member at most one missing-authorization event names
\* the role for the member, whatever met the unauthorized role; and the list
\* the guard returned to a handler is the binding's roles that the guild still
\* has and the bot may manage, in the binding's order.
C14_WarnedOncePerPair ==
    /\ \A r \in Roles, m \in Members :
          /\ Cardinality(MissingPermissionsNaming(r, m)) <= 1
          /\ \A e \in MissingPermissionsNaming(r, m) : Count(emitted, e) = 1
          /\ MissingPermissionsNaming(r, m) # {} => r \notin env.editable
    /\ \A f \in DOMAIN frames :
          (frames[f].kind = "action" /\ frames[f].pc # "usersFetch") =>
              frames[f].perm =
                  SelectSeq(reactionRoles[frames[f].rr].roles,
                            LAMBDA r : r \in env.roles /\ r \in env.editable)

\* C14 witness: two of A's reaction events on the first binding have been
\* handled, both past the guard, and the event for R1 and A was emitted.
C14_Witness ==
    /\ MissingPermissionsNaming("R1", "A") # {}
    /\ {1, 2} \subseteq hist.done
    /\ \A k \in {1, 2} : hist.events[k].user = "A" /\ hist.events[k].id = "M1-e1"
    /\ hist.events[1].type = "add"
    /\ hist.events[2].type = "remove"

\* -------------------------------------------------------------- registration
\* The registry holds the NORMAL binding M1-e1, of which A may be the winner;
\* nothing is registered for e2, with which the bot has not reacted.  The
\* application registers bindings on M1, on a DM message or on something that
\* is no message, with a role instance, the id of a guild role, a string that
\* is the id of no role of the guild (R9), or a number.  RegisterArgs is a
\* well-formed call and the calls that differ from it in one argument:
\* <<message, roles, emoji, type, max>>.
RegisterArgs ==
    LET ok == <<"M1", <<<<"Role", "R1">>, <<"string", "R2">>>>, "e2", {}, 0>>
    IN  {ok, [ok EXCEPT ![5] = 1], [ok EXCEPT ![3] = "e1"]}
        \cup {[ok EXCEPT ![1] = m] : m \in {"DM", "text"}}
        \cup {[ok EXCEPT ![2] = r] :
                r \in {<<<<"string", "R9">>>>, <<<<"number", "5">>>>,
                       <<<<"number", "5">>, <<"string", "R2">>>>}}
        \cup {[ok EXCEPT ![3] = e] : e \in {"", "<:x:9>", ":x"}}
        \cup {[ok EXCEPT ![4] = {"WRONG"}]}

InitRegister ==
    \E w \in {<<>>, <<"A">>} :
        InitWith([id \in {"M1-e1"} |->
                     NewReactionRole(id, <<"R1">>, {"NORMAL"}, 0, FALSE, FALSE, w)],
                 [Env0 EXCEPT !.memberRoles["A"] = IF w = <<>> THEN {} ELSE {"R1"},
                              !.reactions["M1-e1"] = {BotUser} \cup Range(w),
                              !.reactions["M1-e2"] = {}],
                 Hist(None), Scenario(MaxEvents - 1, TRUE, FALSE))

NextRegister ==
    \/ \E a \in RegisterArgs : Register(a[1], a[2], a[3], a[4], a[5])
    \/ \E f \in 1..MaxEvents : HandleRegister(f)
    \/ \E id \in {"M1-e1", "M1-e2"} : ReactionAdd("A", id)
    \/ \E id \in {"M1-e1", "M1-e2"} : ReactionRemove("A", id)
    \/ \E f \in 1..MaxEvents : Handle(f)

SpecRegister == InitRegister /\ [][NextRegister]_vars

ApiCalls(call, outcomes) ==
    {f \in 1..MaxEvents : hist.api[f].call = call /\ hist.api[f].outcome \in outcomes}

\* A rejected call left the registry, the store and the reactions as they were.
RejectedRegisterChangesNothing ==
    \A f \in ApiCalls("register", {"rejected"}) : hist.api[f].post = hist.api[f].pre

\* The binding a resolved call promises.
RegisterSucceeds ==
    \A f \in ApiCalls("register", {"resolved"}) :
        LET id == MakeId(hist.api[f].args[1], hist.api[f].args[3])
            post == hist.api[f].post
        IN  /\ id \in DOMAIN post.rr
            /\ post.rr[id].id = id
            /\ ~post.rr[id].disabled
            /\ post.rr[id].winners = <<>>
            /\ BotUser \in post.reactions[id]
            /\ id \in DOMAIN post.store
            /\ post.store[id] = post.rr[id]

\* The calls that must fail: the message is no guild message, the emoji is
\* neither a unicode emoji nor a custom emoji of the client, or no role argument
\* is a role of the guild.
RegisterMustFail(args) ==
    \/ ~isGuildMessage(args[1])
    \/ args[3] \notin {"e1", "e2"}
    \/ \A i \in 1..Len(args[2]) : args[2][i][2] \notin env.roles

\* C15: createReactionRole rejects, changing neither the registry nor the store
\* nor the message's reactions, when the message is no guild message, when no
\* role argument resolves to a role of the guild or when the emoji cannot be
\* resolved; a resolved call has put an enabled binding with no winners under
\* the id of message and emoji, reacted with the emoji and stored the binding.
C15_RegisterValidates ==
    /\ RejectedRegisterChangesNothing
    /\ RegisterSucceeds
    /\ \A f \in ApiCalls("register", {"pending", "rejected", "resolved", "thrown"}) :
          RegisterMustFail(hist.api[f].args) => hist.api[f].outcome = "rejected"

\* ------------------------------------------------------------------ disabling
\* Two NORMAL bindings on M1, with the roles R1 and R2; A may be the recorded
\* winner of the first.  The application calls deleteReactionRole with a
\* binding, with a selector, with both or with neither, while A and B react.
DisableArgs ==
    {<<None, None, None>>, <<None, "M1", None>>, <<"M1-e1", None, None>>,
     <<None, "M1", "e1">>, <<None, "M2", "e1">>, <<"M1-e1", "M2", "e1">>,
     <<None, "M1", ":x">>}

InitDisable ==
    \E w \in {<<>>, <<"A">>} :
        InitWith(TwoBindings({"NORMAL"}, 0, w),
                 EnvWith(Range(w), Range(w)), Hist(None), Scenario(MaxEvents, TRUE, FALSE))

NextDisable ==
    \/ \E a \in DisableArgs : Disable(a[1], a[2], a[3])
    \/ \E id \in {"M1-e1", "M1-e2"} : ReactionAdd("A", id)
    \/ ReactionAdd("B", "M1-e1")
    \/ ReactionRemove("A", "M1-e1")
    \/ \E f \in 1..MaxEvents : Handle(f)

SpecDisable == InitDisable /\ [][NextDisable]_vars

\* The calls that must fail: a complete selector that matches no binding of
\* the registry, or neither a binding nor a complete selector.
DisableMustFail(f) ==
    LET a == hist.api[f].args
    IN  \/ a[2] # None /\ a[3] # None /\ MakeId(a[2], a[3]) \notin DOMAIN hist.api[f].pre.rr
        \/ a[1] = None /\ (a[2] = None \/ a[3] = None)

DisableFails ==
    \A f \in ApiCalls("disable", {"pending", "rejected", "resolved", "thrown"}) :
        DisableMustFail(f) =>
            hist.api[f].outcome = "rejected" /\ hist.api[f].post = hist.api[f].pre

\* The binding a call names, by itself or by its selector.
DisableTarget(f) ==
    LET a == hist.api[f].args
    IN  IF a[2] # None /\ a[3] # None THEN MakeId(a[2], a[3]) ELSE a[1]

DisableSucceeds ==
    \A f \in ApiCalls("disable", {"pending", "rejected", "resolved", "thrown"}) :
        ~DisableMustFail(f) =>
            /\ hist.api[f].outcome = "resolved"
            /\ hist.api[f].post.rr[DisableTarget(f)].disabled
            /\ reactionRoles[DisableTarget(f)].disabled

Holders(roles, r) == {m \in Members : r \in roles[m]}

\* Once a binding is disabled with no handler in flight, its winners and the
\* holders of its role stay what they were when the call returned.
DisabledIsInert ==
    \A f \in ApiCalls("disable", {"resolved"}) :
        hist.events[f].after = 1..(f - 1) =>
            LET id == DisableTarget(f)
            IN  /\ reactionRoles[id].winners = hist.api[f].post.rr[id].winners
                /\ Holders(env.memberRoles, RoleOf(id))
                       = Holders(hist.api[f].post.roles, RoleOf(id))

\* C16: deleteReactionRole rejects and changes nothing when its selector matches
\* no binding of the registry or when it got neither a binding nor a selector;
\* with a binding of the registry it resolves with the binding disabled, and
\* the reaction events on that binding that follow change neither its winners
\* nor who holds its role.
C16_DisableValidates ==
    /\ DisableFails
    /\ DisableSucceeds
    /\ DisabledIsInert

\* A disabled binding has met a later reaction of a member who did not hold its
\* role, and the handler of that event has returned.
DisabledMetReaction ==
    \E f \in ApiCalls("disable", {"resolved"}), k \in 1..Len(hist.events) :
        /\ hist.events[f].after = 1..(f - 1)
        /\ k > f /\ k \in hist.done
        /\ hist.events[k].type = "add"
        /\ hist.events[k].id = DisableTarget(f)
        /\ hist.events[k].user \notin Holders(hist.api[f].post.roles, RoleOf(DisableTarget(f)))

\* ----------------------------------------------------------------- bot users
\* The process boots from one stored binding, NORMAL or TOGGLE, of which A may
\* be the recorded winner and reactor; the bot, a member of the guild that may
\* hold the binding's role, has its reaction on the message.  During and after
\* the reconciliation the gateway delivers the removal and the return of the
\* bot's reaction, and A's reactions.
InitBots ==
    \E t \in {{"NORMAL"}, {"TOGGLE"}}, w \in {<<>>, <<"A">>}, held \in {{}, {"R1"}} :
        InitBoot([id \in {"M1-e1"} |->
                     NewReactionRole(id, <<"R1">>, t, 0, FALSE, FALSE, w)],
                 [EnvWith(Range(w), Range(w)) EXCEPT !.members = Users,
                                                     !.memberRoles[BotUser] = held],
                 Hist(held), Scenario(MaxEvents - 1, TRUE, FALSE))

NextBots ==
    \/ Boot
    \/ ReadyFire
    \/ \E u \in {"A", BotUser} : ReactionAdd(u, "M1-e1")
    \/ ReactionRemove(BotUser, "M1-e1")
    \/ \E f \in 1..MaxEvents : Handle(f)
    \/ TimerFire
    \/ \E m \in {"A", BotUser} : Settle(m)

SpecBots == InitBots /\ [][NextBots]_vars

\* C17: the manager does nothing for a bot.  The bot keeps the roles it had, is
\* on no winners list, loses no reaction by a call of the manager, has no
\* debounce timer and no settlement, no handler runs for it and no domain
\* event names it, whether its reactions arrive as gateway events or are found
\* by the boot reconciliation.
C17_BotsIgnored ==
    /\ env.memberRoles[BotUser] = hist.cfg
    /\ \A id \in DOMAIN reactionRoles : BotUser \notin Range(reactionRoles[id].winners)
    /\ \A id \in BindingIds : Count(calls, <<"removeReaction", id, BotUser>>) = 0
    /\ ~timeouts[BotUser]
    /\ locker[BotUser] = <<>>
    /\ \A i \in 1..Len(timers) : timers[i].member # BotUser
    /\ \A f \in DOMAIN frames : frames[f].member # BotUser
    /\ \A e \in BagToSet(emitted) :
          /\ Len(e) >= 2 => e[2] # BotUser
          /\ Len(e) >= 3 => e[3] # BotUser

\* C17 witness: the boot reconciliation has returned, having met the bot among
\* the reactors, and the handlers of a reaction-added and of a reaction-removed
\* event of the bot have returned.
C17_Witness ==
    /\ boot.pc = "done"
    /\ isReady
    /\ \E k, l \in hist.done :
          /\ hist.events[k].user = BotUser /\ hist.events[k].type = "remove"
          /\ hist.events[l].user = BotUser /\ hist.events[l].type = "add"

\* ------------------------------------------------- events without a binding
\* On message M1 the binding M1-e1 (role R1) is enabled and M1-e2 (role R2) is
\* disabled, both NORMAL or both TOGGLE; A may be the recorded winner of the
\* disabled one, holding R2 and still reacting.  Nothing is registered on
\* message M2.  A reacts and un-reacts on M1-e2 and on M2 with e1, while B
\* reacts on the enabled binding.
DisabledBinding(t, w) ==
    [NewReactionRole("M1-e2", <<"R2">>, t, 0, FALSE, FALSE, w) EXCEPT !.disabled = TRUE]

InitNoBinding ==
    \E t \in {{"NORMAL"}, {"TOGGLE"}}, w \in {<<>>, <<"A">>} :
        InitWith([id \in {"M1-e1", "M1-e2"} |->
                     IF id = "M1-e2" THEN DisabledBinding(t, w)
                     ELSE NewReactionRole(id, <<"R1">>, t, 0, FALSE, FALSE, <<>>)],
                 [Env0 EXCEPT !.messages = {"M1", "M2"},
                              !.memberRoles["A"] = IF w = <<>> THEN {} ELSE {"R2"},
                              !.reactions["M1-e2"] = {BotUser} \cup Range(w),
                              !.reactions["M2-e1"] = {}],
                 Hist([rr |-> DisabledBinding(t, w),
                       roles |-> IF w = <<>> THEN {} ELSE {"R2"}]),
                 Scenario(MaxEvents, TRUE, FALSE))

NextNoBinding ==
    \/ \E id \in {"M1-e2", "M2-e1"} : ReactionAdd("A", id)
    \/ \E id \in {"M1-e2", "M2-e1"} : ReactionRemove("A", id)
    \/ ReactionAdd("B", "M1-e1")
    \/ ReactionRemove("B", "M1-e1")
    \/ \E f \in 1..MaxEvents : Handle(f)
    \/ TimerFire
    \/ Settle("B")

SpecNoBinding == InitNoBinding /\ [][NextNoBinding]_vars

\* C18: reaction events for an id without a binding, or with a disabled binding
\* only, change nothing.  A, whose events are all of that kind, keeps the roles
\* held, the disabled binding and its stored entry stay as they were, nothing is
\* registered or stored for M2-e1, no call to the platform and no domain event
\* names A, and A has no handler in flight, no debounce timer and no settlement.
C18_NoBindingNoOp ==
    /\ env.memberRoles["A"] = hist.cfg.roles
    /\ reactionRoles["M1-e2"] = hist.cfg.rr
    /\ store["M1-e2"] = hist.cfg.rr
    /\ "M2-e1" \notin DOMAIN reactionRoles \cup DOMAIN store
    /\ "A" \notin Range(reactionRoles["M1-e1"].winners)
    /\ \A c \in BagToSet(calls) : c[2] # "A" /\ (Len(c) >= 3 => c[3] # "A")
    /\ \A e \in BagToSet(emitted) :
          /\ Len(e) >= 2 => e[2] # "A"
          /\ Len(e) >= 3 => e[3] # "A"
    /\ ~timeouts["A"]
    /\ locker["A"] = <<>>
    /\ \A i \in 1..Len(timers) : timers[i].member # "A"
    /\ \A f \in DOMAIN frames : frames[f].member # "A"

\* C18 witness: the handlers of A's reaction on the disabled binding, of A's
\* reaction on the message without a binding and of a removal have returned.
C18_Witness ==
    \E k, l, n \in hist.done :
        /\ hist.events[k] = [hist.events[k] EXCEPT !.type = "add", !.user = "A", !.id = "M1-e2"]
        /\ hist.events[l] = [hist.events[l] EXCEPT !.type = "add", !.user = "A", !.id = "M2-e1"]
        /\ hist.events[n].type = "remove" /\ hist.events[n].user = "A"

\* ------------------------------------------------- order of a member's events
\* One NORMAL binding with role R1, unbounded or with max = 1, without winners.
\* A reacts and takes the reaction back; B reacts.  Every handler is free to
\* resume whenever the call it awaits has returned.
InitOrder ==
    \E max \in {0, 1} :
        InitWith([id \in {"M1-e1"} |->
                     NewReactionRole(id, <<"R1">>, {"NORMAL"}, max, FALSE, FALSE, <<>>)],
                 Env0, Hist(None), Scenario(MaxEvents, TRUE, FALSE))

NextOrder ==
    \/ \E u \in {"A", "B"} : ReactionAdd(u, "M1-e1")
    \/ ReactionRemove("A", "M1-e1")
    \/ \E u \in {"A", "B"} : ReactionRemoved(u, "M1-e1")
    \/ \E f \in 1..MaxEvents : Handle(f)

SpecOrder == InitOrder /\ [][NextOrder]_vars

\* C19: when A's reaction-added event on the NORMAL binding is followed at once
\* by A's reaction-removed event and nothing of A's comes after, then, once the
\* handlers of both have returned, A does not hold the binding's role and is
\* not among its winners.
C19_RevokeAfterGrant ==
    \A k \in 1..(Len(hist.events) - 1) :
        ( /\ hist.events[k].type = "add" /\ hist.events[k].user = "A"
          /\ hist.events[k + 1].type = "remove" /\ hist.events[k + 1].user = "A"
          /\ \A l \in (k + 2)..Len(hist.events) : hist.events[l].user # "A"
          /\ {k, k + 1} \subseteq hist.done )
        => /\ "R1" \notin env.memberRoles["A"]
           /\ "A" \notin Range(reactionRoles["M1-e1"].winners)

\* ------------------------------------------- un-reacting before the settlement
\* Two unbounded TOGGLE bindings on message M1, no winners, A holding no role.
\* A reacts and takes reactions back.
InitUnreact ==
    InitWith(TwoBindings({"TOGGLE"}, 0, <<>>), Env0, Hist(None),
             Scenario(MaxEvents - 1, TRUE, FALSE))

NextUnreact ==
    \/ \E id \in {"M1-e1", "M1-e2"} : ReactionAdd("A", id)
    \/ \E id \in {"M1-e1", "M1-e2"} : ReactionRemove("A", id)
    \/ \E f \in 1..MaxEvents : Handle(f)
    \/ TimerFire
    \/ Settle("A")

SpecUnreact == InitUnreact /\ [][NextUnreact]_vars

\* A reacted on the TOGGLE binding id, which armed A's debounce timer with id as
\* the candidate, and took the reaction back while the timer was pending; the
\* one settlement has run and nothing is left in flight.
UnreactedInWindow(id) ==
    /\ Len(hist.events) = 2
    /\ hist.events[1] = [hist.events[1] EXCEPT !.type = "add", !.user = "A", !.id = id]
    /\ hist.events[2] = [hist.events[2] EXCEPT !.type = "remove", !.user = "A", !.id = id]
    /\ hist.last.kind = "action" /\ hist.last.action = ActionTake
    /\ hist.last.pre.timeouts
    /\ hist.armed["A"] = 1
    /\ hist.settled["A"] = 1
    /\ Settled

\* C20: when the member took the reaction on the candidate binding back during
\* the debounce window, the settlement grants nothing: the member does not get
\* the candidate's role, no role-granted event is emitted and the member is not
\* appended to the candidate's winners.
C20_UnreactedCandidateSkipped ==
    \A id \in {"M1-e1", "M1-e2"} :
        UnreactedInWindow(id) =>
            /\ RoleOf(id) \notin env.memberRoles["A"]
            /\ Count(emitted, <<"reactionRoleAdd", "A", RoleOf(id)>>) = 0
            /\ "A" \notin Range(reactionRoles[id].winners)

\* ------------------------------------------------------- the toggle group
\* Two unbounded TOGGLE bindings on message M1.  A is the recorded winner of
\* M1-e1 and holds its role R1, with the reaction on e1 still there or gone
\* (taken off while the process was down).  A reacts with e2; B, who holds
\* nothing, reacts with e1.
InitGroup ==
    \E reacted \in BOOLEAN :
        InitWith(TwoBindings({"TOGGLE"}, 0, <<"A">>),
                 EnvWith({"A"}, IF reacted THEN {"A"} ELSE {}),
                 Hist([reacted |-> reacted]), Scenario(MaxEvents, TRUE, FALSE))

NextGroup ==
    \/ ReactionAdd("A", "M1-e2")
    \/ ReactionAdd("B", "M1-e1")
    \/ \E id \in {"M1-e1", "M1-e2"} : ReactionRemoved("A", id)
    \/ \E f \in 1..MaxEvents : Handle(f)
    \/ TimerFire
    \/ \E m \in {"A", "B"} : Settle(m)

SpecGroup == InitGroup /\ [][NextGroup]_vars

\* C21: A held the role of the TOGGLE binding M1-e1 and reacted on M1-e2 of the
\* same message; every role may be managed and every hook answers true.  Once
\* the settlement with the candidate M1-e2 has finished and nothing is left in
\* flight, A no longer holds R1, so A holds at most one role of the group.
C21_GroupHoldsOne ==
    (hist.settled["A"] >= 1 /\ Settled)
        => /\ "R1" \notin env.memberRoles["A"]
           /\ Cardinality(env.memberRoles["A"] \cap Roles) <= 1

\* The same for a member whose reaction on the other option was still there.
GroupHoldsOneWhenReacted ==
    (hist.cfg.reacted /\ hist.settled["A"] >= 1 /\ Settled)
        => Cardinality(env.memberRoles["A"] \cap Roles) <= 1

\* ------------------------------------------------------------- the debouncer
\* The debounce timers of member m that are pending.
SettleTimers(m) ==
    {i \in 1..Len(timers) : timers[i].kind = "settle" /\ timers[i].member = m}

\* C22: a member has at most one debounce timer pending, the one timeouts
\* records; the pending timer, and the settlement its firing started, carry the
\* candidate of the member's last schedule call that set a timer, so an earlier
\* call of the same window is never settled and a settlement starts one delay
\* after the last call; no more settlements have run than timers were set.
C22_OneTimerLastCandidate ==
    \A m \in Users :
        /\ Cardinality(SettleTimers(m)) <= 1
        /\ timeouts[m] <=> SettleTimers(m) # {}
        /\ \A i \in SettleTimers(m) : timers[i].skipped = hist.sched[m]
        /\ locker[m] # <<>> => locker[m][1].skipped = hist.sched[m]
        /\ Len(locker[m]) <= 1
        /\ hist.settled[m] + Len(locker[m]) + Cardinality(SettleTimers(m)) <= hist.armed[m]

\* C22 witness: A's two schedule calls fell into one window, the second with
\* another candidate than the first; the timer of the first was cancelled and
\* the one settlement that ran granted the second candidate only.
C22_Witness ==
    /\ hist.armed["A"] = 2
    /\ hist.settled["A"] = 1
    /\ Settled
    /\ hist.events[1].user = "A" /\ hist.events[2].user = "A"
    /\ hist.events[1].id = "M1-e1" /\ hist.events[2].id = "M1-e2"
    /\ hist.sched["A"] = "M1-e2"
    /\ env.memberRoles["A"] = {"R2"}

\* ------------------------------------------------ one settlement per member
\* Two unbounded TOGGLE bindings on message M1, nobody holding a role.  A reacts
\* on both and B on the first, in any order and at any pace; the reactions a
\* settlement removes stay removed.
InitLock ==
    InitWith(TwoBindings({"TOGGLE"}, 0, <<>>), Env0, Hist(None),
             Scenario(MaxEvents, FALSE, FALSE))

NextLock ==
    \/ \E id \in {"M1-e1", "M1-e2"} : ReactionAdd("A", id)
    \/ ReactionAdd("B", "M1-e1")
    \/ \E f \in 1..MaxEvents : Handle(f)
    \/ TimerFire
    \/ \E m \in {"A", "B"} : Settle(m)

SpecLock == InitLock /\ [][NextLock]_vars

\* The settlement callbacks of member m whose body has started.
Executing(m) == {i \in 1..Len(locker[m]) : locker[m][i].pc # "queued"}

\* C23: of a member's settlement callbacks at most one has started and not
\* finished, and it is the one holding the lock; no callback of the member
\* waits behind it, because a timer of the member is pending only while none
\* of the member's settlements runs.
C23_OneSettlementPerMember ==
    \A m \in Users :
        /\ Cardinality(Executing(m)) <= 1
        /\ Executing(m) \subseteq {1}
        /\ timeouts[m] => locker[m] = <<>>
        /\ \A i \in 1..Len(timers) :
              (timers[i].kind = "settle" /\ timers[i].member = m) => locker[m] = <<>>

\* C23 witness: the settlements of A and of B are both suspended at a call to
\* the platform, and a schedule request of A that found A busy waits.
C23_Witness ==
    /\ Executing("A") = {1}
    /\ Executing("B") = {1}
    /\ \E i \in 1..Len(timers) : timers[i].kind = "retry" /\ timers[i].member = "A"

\* ------------------------------------------------------- the retry budget
\* The head of the timer queue is the wait of a schedule request that found
\* its member busy three times, and this step ends the wait.
LastTryEnds ==
    /\ timers # <<>>
    /\ Head(timers).kind = "retry"
    /\ Head(timers).tries = 3
    /\ (timers' = <<>> \/ Head(timers') # Head(timers))

\* C24: a schedule request that finds the member busy waits one delay and
\* tries again; it looks at the member at most three times.  When the wait
\* after the third look ends the request is dropped: no timer is set, and the
\* member's pending timer, lock, roles, reactions and bindings, the store and
\* the events emitted stay as they were.
C24_RetryBudget ==
    /\ [](\A i \in 1..Len(timers) :
              timers[i].kind = "retry" => timers[i].tries \in 1..3)
    /\ [][LastTryEnds =>
              /\ timers' = Tail(timers)
              /\ UNCHANGED <<timeouts, locker, reactionRoles, env, store, emitted,
                             calls, frames, warned, pending>>]_vars

\* C24 witness: A's first reaction was settled for so long that the schedule
\* request of A's second reaction was dropped: both handlers have returned, the
\* settlement is still suspended, one timer was ever set and none is pending.
C24_Witness ==
    /\ Len(hist.events) = 2
    /\ hist.done = {1, 2}
    /\ \A k \in {1, 2} : hist.events[k].user = "A" /\ hist.events[k].type = "add"
    /\ locker["A"] # <<>>
    /\ timers = <<>>
    /\ hist.armed["A"] = 1
    /\ hist.settled["A"] = 0

\* ------------------------------------------------- readiness and the loop
\* C25: the ready signal is not emitted while the boot reconciliation still
\* has a binding in progress or to start: once the manager is ready the loop
\* of __resfreshOnBoot has run to its end.
C25_ReadyAfterBoot ==
    isReady => boot.pc = "done"

\* ------------------------------------------ bindings that cannot be resolved
\* The bindings loaded at boot whose guild or channel is not in the cache.
LoadedWithoutPlace ==
    {id \in hist.cfg.ids : reactionRoles[id].guild \notin env.guilds
                           \/ reactionRoles[id].channel \notin env.channels}

\* The bindings loaded at boot whose message the platform no longer has.
LoadedWithoutMessage ==
    {id \in hist.cfg.ids : reactionRoles[id].message \notin env.messages}

\* C26: the boot reconciliation disables every loaded binding whose guild,
\* channel or message cannot be resolved, and goes on with the next binding:
\* when the loop has ended each such binding is disabled.
C26_BootDropsUnresolvable ==
    boot.pc = "done" =>
        \A id \in LoadedWithoutPlace \cup LoadedWithoutMessage :
            reactionRoles[id].disabled

\* The guild and channel cases alone.
BootDropsWithoutPlace ==
    boot.pc = "done" => \A id \in LoadedWithoutPlace : reactionRoles[id].disabled

\* The loop has ended after meeting a binding without guild or channel before
\* another binding.
BootDroppedAndWentOn ==
    /\ boot.pc = "done"
    /\ Len(boot.arr) >= 2
    /\ boot.arr[1] \in LoadedWithoutPlace

\* ------------------------------------------------- a failure during boot
\* Storage holds one NORMAL binding in each of two guilds, M1-e1 in G1 and
\* M2-e1 in G2, loaded in this order; A and B may be reacting on either without
\* holding its role.  Any platform call of the loop may fail.
InitBootFail ==
    \E r1 \in SUBSET {"A", "B"}, r2 \in SUBSET {"A", "B"} :
        InitBoot([id \in {"M1-e1", "M2-e1"} |->
                     IF id = "M1-e1"
                     THEN NewReactionRole(id, <<"R1">>, {"NORMAL"}, 0, FALSE, FALSE, <<>>)
                     ELSE [NewReactionRole(id, <<"R2">>, {"NORMAL"}, 0, FALSE, FALSE, <<>>)
                              EXCEPT !.guild = "G2", !.channel = "C2"]],
                 [Env0 EXCEPT !.guilds = {"G1", "G2"}, !.channels = {"C1", "C2"},
                              !.messages = {"M1", "M2"},
                              !.reactions["M1-e1"] = r1 \cup {BotUser},
                              !.reactions["M2-e1"] = r2 \cup {BotUser}],
                 Hist([r1 |-> r1, r2 |-> r2]), Scenario(MaxEvents, TRUE, TRUE))

NextBootFail ==
    \/ Boot
    \/ BootReject
    \/ ReadyFire

SpecBootFail == InitBootFail /\ [][NextBootFail]_vars

\* The loop has ended, by running through or by a failure, and the call it
\* awaited has returned.
BootEnded == boot.pc \in {"done", "rejected"}

\* C27: a platform failure other than not-found during the reconciliation of
\* one binding stops the boot of that binding's guild only.  When the loop has
\* ended on a failure at a binding of G1, the later binding of G2 has still been
\* reconciled: everyone reacting on it is a winner and holds its role.
C27_OtherGroupsReconciled ==
    (boot.pc = "rejected" /\ reactionRoles[boot.arr[boot.i]].guild = "G1") =>
        \A m \in hist.cfg.r2 :
            /\ m \in Range(reactionRoles["M2-e1"].winners)
            /\ "R2" \in env.memberRoles[m]

\* Without a failure the loop reconciles both guilds.
BootReconcilesBothGroups ==
    boot.pc = "done" =>
        /\ \A m \in hist.cfg.r1 : "R1" \in env.memberRoles[m]
        /\ \A m \in hist.cfg.r2 : "R2" \in env.memberRoles[m]

\* -------------------------------------------- all reactions of a message cleared
\* Two NORMAL bindings on message M1, the first with the roles R1 and R2, the
\* second with R2; A and B may be recorded winners and may hold the roles of
\* the bindings they won; B may have left the guild; the bot may manage any
\* subset of the roles and the pre-revoke hook answers true for any subset.
\* Message M2 of the same channel has no binding.
InitClear ==
    \E w1 \in {<<>>, <<"A">>, <<"A", "B">>}, w2 \in {<<>>, <<"A">>},
       members \in {{"A", "B"}, {"A"}}, editable \in SUBSET Roles,
       hookRemove \in SUBSET Roles, held \in BOOLEAN :
        LET rrs == [id \in {"M1-e1", "M1-e2"} |->
                       IF id = "M1-e1"
                       THEN NewReactionRole(id, <<"R1", "R2">>, {"NORMAL"}, 0, FALSE, FALSE, w1)
                       ELSE NewReactionRole(id, <<"R2">>, {"NORMAL"}, 0, FALSE, FALSE, w2)]
            memberRoles == [m \in Users |->
                               IF held /\ m \in members
                               THEN UNION {Range(rrs[id].roles) :
                                              id \in {x \in DOMAIN rrs : m \in Range(rrs[x].winners)}}
                               ELSE {}]
        IN  InitWith(rrs,
                     [Env0 EXCEPT !.messages = {"M1", "M2"}, !.members = members,
                                  !.editable = editable, !.hookRemove = hookRemove,
                                  !.memberRoles = memberRoles],
                     Hist([rr |-> rrs, memberRoles |-> memberRoles]),
                     Scenario(MaxEvents, TRUE, FALSE))

NextClear ==
    \/ \E message \in {"M1", "M2"} : RemoveAll(message)
    \/ \E f \in 1..MaxEvents : HandleRemoveAll(f)

SpecClear == InitClear /\ [][NextClear]_vars

\* The number of messageReactionRemoveAll events delivered for a message.
Cleared(message) ==
    Cardinality({k \in 1..Len(hist.events) : hist.events[k].id = message})

\* Every handler that was started has returned.
AllHandled == \A f \in DOMAIN frames : frames[f].kind = "none"

OnMessage(message) == {id \in DOMAIN reactionRoles : reactionRoles[id].message = message}

\* The recorded winners of a binding who are members of the guild.
PresentWinners(id) ==
    {j \in 1..Len(reactionRoles[id].winners) : reactionRoles[id].winners[j] \in env.members}

\* The roles of a binding the bot may manage.
Authorized(id) == {r \in Range(reactionRoles[id].roles) : r \in env.roles \cap env.editable}

\* What one handled messageReactionRemoveAll on the message has to announce.
RolesAffected(message) ==
    UNION {Authorized(id) : id \in {x \in OnMessage(message) : PresentWinners(x) # {}}}

MembersAffected(message) ==
    UNION {{reactionRoles[id].winners[j] : j \in PresentWinners(id)} :
              id \in {x \in OnMessage(message) : Authorized(x) \cap env.hookRemove # {}}}

RECURSIVE SumOver(_, _)
SumOver(S, n) ==
    IF S = {} THEN n
    ELSE LET x == CHOOSE y \in S : TRUE
         IN  SumOver(S \ {x}, n + Cardinality(PresentWinners(x)))

ReactionsTaken(message) == SumOver(OnMessage(message), 0)

AllReactionsRemoveEvents == {e \in BagToSet(emitted) : e[1] = "allReactionsRemove"}

EnabledReferring(kind, x) ==
    {id \in DOMAIN reactionRoles : ReferredBy(id, kind, x) /\ ~reactionRoles[id].disabled}

\* C29: when the channel, the guild or the message that both bindings refer to
\* is deleted and the delete event has been handled, no binding that referred
\* to it is left enabled.
C29_CascadeResolvesAll ==
    \A k \in 1..Len(hist.events) :
        (hist.events[k].type \in {"channel", "guild", "message"} /\ k \in hist.done) =>
            EnabledReferring(hist.events[k].type, hist.events[k].id) = {}

\* The first binding the handler finds is resolved when the channel goes.
CascadeResolvesFirst ==
    \A k \in 1..Len(hist.events) :
        (hist.events[k].type = "channel" /\ k \in hist.done) =>
            reactionRoles["M1-e1"].disabled

\* ------------------------------------------------- no role the bot may manage
\* Two bindings on message M1, NORMAL or TOGGLE, unbounded or with max = 1,
\* with A or B the recorded winner of the first and holding its role; the bot
\* may manage neither R1 nor R2.  A reacts on both and takes the reaction on
\* the first back.
InitUnauthorized ==
    \E t \in {{"NORMAL"}, {"TOGGLE"}}, max \in {0, 1}, w \in {<<>>, <<"A">>, <<"B">>} :
        InitWith(TwoBindings(t, max, w),
                 [EnvWith(Range(w), Range(w)) EXCEPT !.editable = {}],
                 Hist([w |-> w]), Scenario(MaxEvents - 1, TRUE, FALSE))

NextUnauthorized ==
    \/ \E id \in {"M1-e1", "M1-e2"} : ReactionAdd("A", id)
    \/ ReactionRemove("A", "M1-e1")
    \/ \E id \in {"M1-e1", "M1-e2"} : ReactionRemoved("A", id)
    \/ \E f \in 1..MaxEvents : Handle(f)
    \/ TimerFire
    \/ Settle("A")

SpecUnauthorized == InitUnauthorized /\ [][NextUnauthorized]_vars

CallsOf(kind) == {c \in BagToSet(calls) : c[1] = kind}

\* No role is added or removed.
UnauthorizedMutatesNoRole ==
    /\ CallsOf("addRole") = {} /\ CallsOf("removeRole") = {}
    /\ env.memberRoles = EnvWith(Range(hist.cfg.w), {}).memberRoles

\* The winners lists stay as they were.
UnauthorizedKeepsWinners ==
    /\ reactionRoles["M1-e1"].winners = hist.cfg.w
    /\ reactionRoles["M1-e2"].winners = <<>>

\* The manager removes no reaction.
UnauthorizedKeepsReaction == CallsOf("removeReaction") = {}

\* No toggle timer is set and no settlement runs.
UnauthorizedSchedulesNothing ==
    /\ timers = <<>>
    /\ \A m \in Users : ~timeouts[m] /\ locker[m] = <<>> /\ hist.armed[m] = 0

\* Nothing but missing-authorization events is emitted.
UnauthorizedEmitsWarningsOnly ==
    \A e \in BagToSet(emitted) : e[1] = "missingPermissions"

\* C30: when the bot may manage none of a binding's roles, handling a reaction
\* event adds and removes no role, leaves the winners lists as they were,
\* removes no reaction of the member, sets no toggle timer, and emits nothing
\* but the missing-authorization event.
C30_UnauthorizedAborts ==
    /\ UnauthorizedMutatesNoRole
    /\ UnauthorizedKeepsWinners
    /\ UnauthorizedKeepsReaction
    /\ UnauthorizedSchedulesNothing
    /\ UnauthorizedEmitsWarningsOnly

\* ------------------------------------------------ bindings that only take
\* The process boots with one JUST_LOSE binding in storage, plain, TOGGLE or
\* REVERSED, unbounded or with max = 1, that asks for a boost nobody gives; A
\* may be its recorded winner holding R1, A and B may be reacting on it, and
\* the bot may or may not manage R1.  After that A and B react and A takes the
\* reaction back, one event at a time.
InitJustLose ==
    \E t \in {{"JUST_LOSE"}, {"JUST_LOSE", "TOGGLE"}, {"JUST_LOSE", "REVERSED"}},
       max \in {0, 1}, editable \in {Roles, {}},
       w \in {<<>>, <<"A">>}, reactors \in SUBSET {"A", "B"} :
        InitBoot([id \in {"M1-e1"} |->
                     NewReactionRole(id, <<"R1">>, t, max, TRUE, FALSE, w)],
                 [EnvWith(Range(w), reactors) EXCEPT !.editable = editable],
                 Hist([w |-> w, reactors |-> reactors]),
                 Scenario(MaxEvents, TRUE, TRUE))

NextJustLose ==
    \/ Boot
    \/ \E u \in {"A", "B"} : ReactionAdd(u, "M1-e1")
    \/ ReactionRemove("A", "M1-e1")
    \/ \E u \in {"A", "B"} : ReactionRemoved(u, "M1-e1")
    \/ \E f \in 1..MaxEvents : Handle(f)

SpecJustLose == InitJustLose /\ [][NextJustLose]_vars

\* The events of a kind emitted so far.
EmittedOf(kind) == {e \in BagToSet(emitted) : e[1] = kind}

\* C31: on a JUST_LOSE binding a GRANT, asked for or the flip of a REVOKE on a
\* REVERSED binding, removes the member's reaction and stops.  No role is ever
\* added and no role-granted event emitted, nobody is appended to winners, no
\* missing-authorization event is emitted for a GRANT, no requirement is
\* looked at and no toggle timer is set; the GRANT that returned last issued
\* one removal of the member's reaction and left the member without it; and
\* the boot reconciliation of a binding that is not REVERSED leaves no member's
\* reaction on it.
C31_JustLoseGrantStops ==
    /\ CallsOf("addRole") = {}
    /\ EmittedOf("reactionRoleAdd") = {}
    /\ EmittedOf("missingRequirements") = {}
    /\ \A e \in EmittedOf("missingPermissions") : e[2] = ActionTake
    /\ reactionRoles # <<>> =>
          /\ Range(reactionRoles["M1-e1"].winners) \subseteq Range(hist.cfg.w)
          /\ Len(reactionRoles["M1-e1"].winners) <= Len(hist.cfg.w)
    /\ timers = <<>>
    /\ \A m \in Users : ~timeouts[m] /\ locker[m] = <<>>
    /\ (hist.last.kind = "action" /\ hist.last.action = ActionGive) =>
          /\ ~hist.last.post.reacted
          /\ hist.last.post.roles = hist.last.pre.roles
          /\ hist.last.post.winners = hist.last.pre.winners
          /\ Count(calls, <<"removeReaction", hist.last.rr, hist.last.member>>)
                 > Count(hist.last.pre.calls,
                         <<"removeReaction", hist.last.rr, hist.last.member>>)
    /\ (boot.pc = "done" /\ hist.events = <<>>
            /\ ~isReversed(reactionRoles["M1-e1"])) =>
          /\ env.reactions["M1-e1"] \cap Members = {}
          /\ \A m \in hist.cfg.reactors :
                 Count(calls, <<"removeReaction", "M1-e1", m>>) = 1

\* C31 witness: the boot reconciliation met the reactions of A and B on a
\* binding with max = 1 whose recorded winner A holds R1, a role the bot may
\* not manage, and removed both; B reacted again and that GRANT returned too.
C31_Witness ==
    /\ boot.pc = "done"
    /\ hist.cfg.reactors = {"A", "B"}
    /\ hist.cfg.w = <<"A">>
    /\ reactionRoles["M1-e1"].max = 1
    /\ env.editable = {}
    /\ hist.last.kind = "action" /\ hist.last.action = ActionGive
    /\ hist.last.member = "B"
    /\ Count(calls, <<"removeReaction", "M1-e1", "B">>) = 2
    /\ Count(calls, <<"removeReaction", "M1-e1", "A">>) = 1

\* ------------------------------------------- toggle groups of two messages
\* One TOGGLE binding on each of two messages, M1-e1 with R1 and M2-e1 with R2,
\* every role manageable and every hook true; A reacts on both.
InitTwoMessages ==
    InitWith([id \in {"M1-e1", "M2-e1"} |->
                 NewReactionRole(id, <<IF id = "M1-e1" THEN "R1" ELSE "R2">>, {"TOGGLE"},
                                 0, FALSE, FALSE, <<>>)],
             [Env0 EXCEPT !.messages = {"M1", "M2"}],
             Hist(None), Scenario(MaxEvents, TRUE, FALSE))

NextTwoMessages ==
    \/ \E id \in {"M1-e1", "M2-e1"} : ReactionAdd("A", id)
    \/ \E f \in 1..MaxEvents : Handle(f)
    \/ TimerFire
    \/ Settle("A")

SpecTwoMessages == InitTwoMessages /\ [][NextTwoMessages]_vars

\* A holds the role of every binding A is reacting on, and is its winner.
ReactionsOfASettled ==
    \A id \in DOMAIN reactionRoles :
        "A" \in env.reactions[id] =>
            /\ Range(reactionRoles[id].roles) \subseteq env.memberRoles["A"]
            /\ "A" \in Range(reactionRoles[id].winners)

\* C32: a settlement scheduled for a member on M1 is not lost when the member
\* triggers a schedule on M2 before it ran.  When A reacted once on each
\* message, each handler set A's timer, and nothing is left to run, both
\* groups are settled for A.
C32_BothMessagesSettled ==
    (Settled /\ Len(hist.events) = 2 /\ hist.armed["A"] = 2) => ReactionsOfASettled

\* The same when the first timer had fired before the second was set.
BothMessagesSettledApart ==
    (Settled /\ Len(hist.events) = 2 /\ hist.settled["A"] = 2) => ReactionsOfASettled

\* ------------------------------------------------ boot of a consistent binding
\* The process boots with one enabled NORMAL binding in storage, unbounded or
\* with max 1 or 2, whose recorded winners are members of the guild, hold its
\* role and are the only members reacting on it.
InitBootSame ==
    \E w \in {<<"A">>, <<"A", "B">>, <<"B", "A">>}, max \in {0, 1, 2} :
        /\ (max > 0 => Len(w) <= max)
        /\ InitBoot([id \in {"M1-e1"} |->
                        NewReactionRole(id, <<"R1">>, {"NORMAL"}, max, FALSE, FALSE, w)],
                    EnvWith(Range(w), Range(w)),
                    Hist([w |-> w, max |-> max]), Scenario(MaxEvents, TRUE, FALSE))

NextBootSame ==
    \/ Boot
    \/ ReadyFire
    \/ \E u \in {"A", "B"} : ReactionRemoved(u, "M1-e1")
    \/ \E f \in 1..MaxEvents : Handle(f)

SpecBootSame == InitBootSame /\ [][NextBootSame]_vars

\* Nothing of the binding, of the members' roles or of their reactions has
\* changed since the process started, and no role event was emitted.
BootTouchedNothing ==
    /\ reactionRoles # <<>> => reactionRoles["M1-e1"].winners = hist.cfg.w
    /\ store["M1-e1"].winners = hist.cfg.w
    /\ env.memberRoles = EnvWith(Range(hist.cfg.w), {}).memberRoles
    /\ env.reactions = EnvWith({}, Range(hist.cfg.w)).reactions
    /\ EmittedOf("reactionRoleAdd") = {} /\ EmittedOf("reactionRoleRemove") = {}
    /\ calls = EmptyBag

\* C33: the boot reconciliation of a binding whose recorded winners all are
\* members, react and hold the role, with nobody else reacting, changes
\* neither the winners list nor a member's roles or reactions and emits no
\* role event, also when the binding has as many winners as max allows.
C33_BootKeepsConsistent == BootTouchedNothing

\* The same for the bindings with room left: unbounded, or fewer winners than
\* max.
BootKeepsConsistentWithRoom ==
    (hist.cfg.max = 0 \/ Len(hist.cfg.w) < hist.cfg.max) => BootTouchedNothing

\* ---------------------------------------------- disabled bindings and restarts
\* The bindings M1-e1 and M1-e2 as they are persisted when both are enabled.
PersistedPair == [id \in {"M1-e1", "M1-e2"} |-> toJSON(TwoBindings({"NORMAL"}, 0, <<>>)[id])]

\* The process starts with both bindings persisted, in the JSON file, in the
\* database or in both, and with disabledProperty true (bindings are disabled
\* and kept) or false (bindings are deleted).  Bindings are disabled through
\* deleteReactionRole and through the deletion of their channel or message,
\* and the process is restarted.
InitReload ==
    \E disabledProperty \in BOOLEAN, mongoose \in BOOLEAN, json \in BOOLEAN :
        /\ mongoose \/ json
        /\ InitBoot(IF json THEN PersistedPair ELSE <<>>,
                    [Env0 EXCEPT !.db = IF mongoose THEN PersistedPair ELSE <<>>],
                    Hist([ids |-> {"M1-e1", "M1-e2"}]),
                    [Scenario(MaxEvents, TRUE, TRUE) EXCEPT
                         !.disabledProperty = disabledProperty,
                         !.mongoose = mongoose, !.json = json])

NextReload ==
    \/ Boot
    \/ Disable("M1-e1", None, None)
    \/ Disable(None, "M1", "e2")
    \/ Delete("channel", "C1")
    \/ Delete("message", "M1")
    \/ Restart

SpecReload == InitReload /\ [][NextReload]_vars

\* No binding that was disabled or deleted when the process ended is in the
\* collection as an enabled binding.
DroppedStayDropped ==
    \A id \in hist.dropped :
        id \in DOMAIN reactionRoles => reactionRoles[id].disabled

\* C34: a binding disabled or deleted through deleteReactionRole or a cascade
\* is not loaded as an enabled binding by a later boot, whether bindings are
\* kept disabled or deleted, and whether they are persisted in the JSON file
\* or in the database.
C34_DisabledNotReloaded == DroppedStayDropped

\* The same when disabled bindings are kept (disabledProperty true).
SoftDeletedNotReloaded == scn.disabledProperty => DroppedStayDropped

\* The same when bindings are deleted and the database is the only store.
HardDeletedFromDatabaseNotReloaded ==
    (~scn.disabledProperty /\ scn.mongoose /\ ~scn.json) => DroppedStayDropped

\* A restart met a dropped binding.
RestartedAfterDrop == hist.dropped # {} /\ boot.pc = "done"
====
